---- MODULE Spec2Model ----
(***************************************************************************)
(* Model of the invoice OCR pipeline of work_station/backend:              *)
(*   app.py            init_ocr_engines, detect_invoices_from_pdf,         *)
(*                     detect_fuel_type, extract_invoice_info,             *)
(*                     process_single_invoice_thread_safe,                 *)
(*                     process_invoice_pdf                                 *)
(*   param.py          patterns and helper extractors                      *)
(*   services/         OCRService, OCRServiceFixed                         *)
(*                                                                         *)
(* Text is modelled as sequences of one-character tokens.  The tools read  *)
(* ASCII only, so every CJK character is written as an ASCII token:        *)
(*   hao U+865F   hao_s U+53F7  nian U+5E74   yue U+6708   shi U+5E02      *)
(*   xian U+7E23  xiang U+9109  zhen U+93AE   qu U+5340    lu U+8DEF       *)
(*   jie U+8857   xiang4 U+5DF7 nong U+5F04   da U+5927    dao U+9053      *)
(*   duan U+6BB5  tai U+53F0    bei U+5317    zhong U+4E2D gao U+9AD8      *)
(*   xiong U+96C4 ping U+5C4F   dong U+6771   chao U+8D85  ji_s U+7EA7     *)
(*   ji U+7D1A    chai U+67F4   you U+6CB9    jiu U+4E5D   wu U+4E94       *)
(*   er U+4E8C    ba U+516B     wu2 U+7121    qian U+925B  qi U+6C7D       *)
(*   gong U+516C  sheng U+5347  shu U+6578    liang U+91CF  nan U+5357     *)
(*   xin U+65B0   tao U+6843    yuan U+5712   zhu U+7AF9   yi U+5B9C       *)
(*   lan U+862D   miao U+82D7   li U+6817     zhang U+5F70 hua U+5316      *)
(*   tou U+6295   yun U+96F2    lin U+6797    jia U+5609   yi4 U+7FA9      *)
(*   hua1 U+82B1  lian U+84EE   jin U+91D1    men U+9580   lian2 U+9023    *)
(*   jiang U+6C5F peng U+6F8E   hu U+6E56     gei U+7ED9   wu_s U+65E0     *)
(*   qian_s U+94C5 ji1 U+673A   sa U+6D12     ji2 U+53CA   ban U+534A      *)
(*   yu U+79B9    xiu U+9508    na U+5A1C     wan U+842C   luan U+5DD2     *)
(*   chao2 U+6F6E zhou1 U+6D32  zhou U+5DDE   chuan U+5DDD suo U+9396      *)
(*   chuanp U+50B3 piao U+7968  ma U+78BC     colon_f U+FF1A               *)
(*   an U+5B89    he U+548C     chu3 U+8655   li3 U+7406   cuo U+932F      *)
(*   wu4 U+8AA4                                                            *)
(***************************************************************************)
EXTENDS Integers, Sequences, FiniteSets, TLC

VARIABLES
    callers,        \* the request threads that may call process_invoice_pdf
    regionCap,      \* the most regions a PDF of this run is segmented into
    callCap,        \* the most calls of process_invoice_pdf in this run
    pages,          \* what the regions of this run's PDFs may show
    installed,      \* environment: which OCR libraries can be imported
    cpu_count,      \* environment: os.cpu_count(), 0 for None
    lib,            \* module globals CnOcr / easyocr / PaddleOCR (TRUE = imported)
    ocr_engines,    \* app.ocr_engines: 0 = None, k > 0 = the k-th object built
    ctorCount,      \* per engine: constructor runs that returned an object
    ctorFailed,     \* per engine: its latest constructor run raised
    pc,             \* per caller: position inside process_invoice_pdf
    calls,          \* number of process_invoice_pdf calls started so far
    temp_dir,       \* TEMP_IMG_FOLDER exists
    cropped_dir,    \* CROPPED_RECEIPTS_FOLDER exists
    cropped,        \* region files in CROPPED_RECEIPTS_FOLDER: name -> image
    invoice_images, \* per caller: the region file names, in segmentation order
    crops,          \* per caller: the crop written for each region
    max_workers,    \* per caller: size of the worker pool
    task,           \* per caller: state of each submitted region task
    future,         \* per caller: the result held by each finished future
    results,        \* per caller: the pre-sized result list
    completed,      \* per caller: region indices in the order as_completed gave them
    failure,        \* per caller: what made the call raise, "none" otherwise
    report,         \* per caller: the rows written to the report file
    region,         \* the region one extraction pipeline is applied to
    pipeline,       \* which pipeline has been applied to it, "none" before
    record,         \* the record that pipeline returned
    raised,         \* the pipeline raised instead of returning a record
    paddle_calls,   \* inference calls made on PaddleOCR for the region
    primary_fields, \* the fields the pipeline had before its PaddleOCR pass
    filled_fields,  \* the fields it had after that pass, before validation
    pdf,            \* the PDF a segmenter is given: its pages and contours
    detector,       \* the segmenter that ran on it, "none" before
    kernels,        \* the dilation kernel size it used on each page
    region_files    \* the list of region files it returned

cfgVars == <<callers, regionCap, callCap, pages, installed, cpu_count>>

engineVars == <<lib, ocr_engines, ctorCount, ctorFailed>>

dirVars == <<temp_dir, cropped_dir, cropped>>

batchVars ==
    <<invoice_images, crops, max_workers, task, future, results, completed,
      failure, report>>

extractVars ==
    <<region, pipeline, record, raised, paddle_calls, primary_fields,
      filled_fields>>

segVars == <<pdf, detector, kernels, region_files>>

vars ==
    <<cfgVars, engineVars, dirVars, batchVars, extractVars, segVars, pc,
      calls>>

Engines == {"cnocr", "easyocr", "paddleocr"}

Callers == {1, 2}

\* bound: calls of process_invoice_pdf in one process lifetime
MaxCalls == 2

NoEngine == 0

-----------------------------------------------------------------------------
(* Text primitives: Python str / re operations on token sequences.         *)

None == <<"<None>">>

Digits == {"0", "1", "2", "3", "4", "5", "6", "7", "8", "9"}

UpperLetters ==
    {"A", "B", "C", "D", "E", "F", "G", "H", "I", "J", "K", "L", "M",
     "N", "O", "P", "Q", "R", "S", "T", "U", "V", "W", "X", "Y", "Z"}

IsDigit(c) == c \in Digits

IsUpper(c) == c \in UpperLetters

MinOf(S) == CHOOSE x \in S : \A y \in S : x <= y

MaxOf(S) == CHOOSE x \in S : \A y \in S : x >= y

\* s[i:i+len(w)] == w
HasAt(s, i, w) ==
    /\ i >= 1
    /\ i + Len(w) - 1 <= Len(s)
    /\ SubSeq(s, i, i + Len(w) - 1) = w

\* Python "w in s" for a non-empty w
Contains(s, w) == \E i \in 1..Len(s) : HasAt(s, i, w)

\* s.find(w) + 1, 0 when absent
Find(s, w) ==
    LET P == {i \in 1..Len(s) : HasAt(s, i, w)}
    IN  IF P = {} THEN 0 ELSE MinOf(P)

\* s.replace(old, new): every non-overlapping occurrence, left to right
RECURSIVE Replace(_, _, _)
Replace(s, old, new) ==
    LET i == Find(s, old)
    IN  IF i = 0 THEN s
        ELSE SubSeq(s, 1, i - 1) \o new
             \o Replace(SubSeq(s, i + Len(old), Len(s)), old, new)

\* for wrong, right in table: s = s.replace(wrong, right)
RECURSIVE ReplaceAll(_, _)
ReplaceAll(s, table) ==
    IF table = <<>> THEN s
    ELSE ReplaceAll(Replace(s, Head(table)[1], Head(table)[2]), Tail(table))

\* ' '.join(lines)
RECURSIVE JoinLines(_)
JoinLines(lines) ==
    IF lines = <<>> THEN <<>>
    ELSE IF Len(lines) = 1 THEN lines[1]
    ELSE lines[1] \o <<" ">> \o JoinLines(Tail(lines))

\* length of the maximal run of digits of s starting at position i
DigitRun(s, i) ==
    MaxOf({k \in 0..(Len(s) - i + 1) : \A j \in i..(i + k - 1) : IsDigit(s[j])})

\* length of the maximal run of blanks of s starting at position i
SpaceRun(s, i) ==
    MaxOf({k \in 0..(Len(s) - i + 1) : \A j \in i..(i + k - 1) : s[j] = " "})

CharAt(s, i) == IF i >= 1 /\ i <= Len(s) THEN s[i] ELSE "<eol>"

DateSeps == {"-", "/"}

-----------------------------------------------------------------------------
(* param.py: keyword tables                                                *)

fuel_keywords ==
    << <<"chao", "ji_s", "chai", "you">>, <<"jiu", "wu", "wu2", "qian">>,
       <<"jiu", "er", "wu2", "qian">>, <<"jiu", "ba", "wu2", "qian">>,
       <<"wu2", "qian", "qi", "you">>, <<"chao", "chai">>,
       <<"9", "8", "hao">>, <<"9", "5", "hao">>, <<"chai", "you">>,
       <<"jiu", "er">>, <<"jiu", "wu">>, <<"jiu", "ba">>,
       <<"9", "2">>, <<"9", "5">>, <<"9", "8">> >>

Label95 == <<"jiu", "wu", "wu2", "qian">>

Label92 == <<"jiu", "er", "wu2", "qian">>

Label98 == <<"jiu", "ba", "wu2", "qian">>

LabelDiesel == <<"chao", "ji", "chai", "you">>

\* fuel_mapping.get(fuel, fuel)
fuel_mapping(fuel) ==
    CASE fuel = <<"jiu", "wu">> -> Label95
      [] fuel = <<"9", "5">> -> Label95
      [] fuel = <<"jiu", "er">> -> Label92
      [] fuel = <<"9", "2">> -> Label92
      [] fuel = <<"jiu", "ba">> -> Label98
      [] fuel = <<"9", "8">> -> Label98
      [] fuel = <<"chao", "ji_s", "chai", "you">> -> LabelDiesel
      [] fuel = <<"chao", "chai">> -> LabelDiesel
      [] fuel = <<"chai", "you">> -> LabelDiesel
      [] OTHER -> fuel

\* fuel_mapping.values()
fuel_mapping_values == {Label95, Label92, Label98, LabelDiesel}

fuel_fuzzy_mapping ==
    << << <<"wu2", "gei">>, <<"wu2", "qian">> >>,
       << <<"wu_s", "gei">>, <<"wu2", "qian">> >>,
       << <<"wu2", "qian_s">>, <<"wu2", "qian">> >>,
       << <<"wu_s", "qian_s">>, <<"wu2", "qian">> >>,
       << <<"chai", "you", "ji1">>, <<"chai", "you">> >>,
       << <<"chai", "sa">>, <<"chai", "you">> >>,
       << <<"chao", "chai">>, LabelDiesel >>,
       << <<"chao", "chai", "chai">>, LabelDiesel >>,
       << <<"jiu", "wu", "wu2", "gei">>, Label95 >>,
       << <<"jiu", "wu", "wu2", "qian_s">>, Label95 >>,
       << <<"jiu", "er", "wu2", "gei">>, Label92 >>,
       << <<"jiu", "ba", "wu2", "gei">>, Label98 >>,
       << <<"9", "5", "+", "wu2", "gei">>, Label95 >>,
       << <<"9", "2", "+", "wu2", "gei">>, Label92 >>,
       << <<"9", "8", "+", "wu2", "gei">>, Label98 >>,
       << <<"chao", "ji2", "chai", "you">>, LabelDiesel >> >>

district_keywords ==
    { <<"tai", "bei">>, <<"tai", "zhong">>, <<"gao", "xiong">>,
      <<"tai", "nan">>, <<"ping", "dong">>, <<"xin", "bei">>,
      <<"tao", "yuan">>, <<"xin", "zhu">>, <<"yi", "lan">>,
      <<"miao", "li">>, <<"zhang", "hua">>, <<"nan", "tou">>,
      <<"yun", "lin">>, <<"jia", "yi4">>, <<"tai", "dong">>,
      <<"hua1", "lian">>, <<"jin", "men">>, <<"lian2", "jiang">>,
      <<"peng", "hu">> }

-----------------------------------------------------------------------------
(* param.py: compiled patterns.  XAt(s, i) is "the pattern matches at      *)
(* position i"; XSearch(s) is pattern.search(s).group() or None.           *)

\* invoice_number_pattern = [A-Z]{2}-\d{8}
invoice_number_at(s, i) ==
    /\ i + 10 <= Len(s)
    /\ IsUpper(s[i]) /\ IsUpper(s[i + 1]) /\ s[i + 2] = "-"
    /\ \A k \in 3..10 : IsDigit(s[i + k])

invoice_number_search(s) ==
    LET P == {i \in 1..Len(s) : invoice_number_at(s, i)}
    IN  IF P = {} THEN None ELSE SubSeq(s, MinOf(P), MinOf(P) + 10)

invoice_number_fullmatch(s) == Len(s) = 11 /\ invoice_number_at(s, 1)

\* date_pattern = \d{4}[-/]\d{2}[-/]\d{2}
date_at(s, i) ==
    /\ i + 9 <= Len(s)
    /\ \A k \in {0, 1, 2, 3, 5, 6, 8, 9} : IsDigit(s[i + k])
    /\ s[i + 4] \in DateSeps /\ s[i + 7] \in DateSeps

date_search(s) ==
    LET P == {i \in 1..Len(s) : date_at(s, i)}
    IN  IF P = {} THEN None ELSE SubSeq(s, MinOf(P), MinOf(P) + 9)

date_fullmatch(s) == Len(s) = 10 /\ date_at(s, 1)

\* the volume units of quantity_pattern: [lL<gong><sheng>]
UnitChars == {"l", "L", "gong", "sheng"}

\* end (exclusive) of the greedy match of \d+\.?\d* at i, 0 when s[i] is no digit
NumberEnd(s, i) ==
    LET d1 == DigitRun(s, i)
        p  == i + d1
    IN  IF d1 = 0 THEN 0
        ELSE IF CharAt(s, p) = "." THEN p + 1 + DigitRun(s, p + 1)
        ELSE p

\* quantity_pattern = (\d+\.?\d*)\s*[lL<gong><sheng>] ; group(1)
quantity_at(s, i) ==
    LET e == NumberEnd(s, i)
    IN  e > 0 /\ CharAt(s, e + SpaceRun(s, e)) \in UnitChars

quantity_search(s) ==
    LET P == {i \in 1..Len(s) : quantity_at(s, i)}
    IN  IF P = {} THEN None
        ELSE SubSeq(s, MinOf(P), NumberEnd(s, MinOf(P)) - 1)

\* quantity_fallback_pattern = (\d+\.\d+)
quantity_fallback_at(s, i) ==
    LET d1 == DigitRun(s, i)
    IN  d1 > 0 /\ CharAt(s, i + d1) = "." /\ DigitRun(s, i + d1 + 1) > 0

quantity_fallback_search(s) ==
    LET P == {i \in 1..Len(s) : quantity_fallback_at(s, i)}
    IN  IF P = {} THEN None
        ELSE SubSeq(s, MinOf(P), NumberEnd(s, MinOf(P)) - 1)

\* simple_quantity_pattern = (\d+\.?\d*) ; group(1)
simple_quantity_search(s) ==
    LET P == {i \in 1..Len(s) : IsDigit(s[i])}
    IN  IF P = {} THEN None
        ELSE SubSeq(s, MinOf(P), NumberEnd(s, MinOf(P)) - 1)

\* float(v) does not raise ValueError: digits with at most one point
FloatParses(v) ==
    /\ Len(v) > 0
    /\ \A i \in 1..Len(v) : IsDigit(v[i]) \/ v[i] = "."
    /\ Cardinality({i \in 1..Len(v) : v[i] = "."}) <= 1
    /\ \E i \in 1..Len(v) : IsDigit(v[i])

CountySuffix == {"xian", "shi"}

TownSuffix == {"xiang", "zhen", "shi", "qu"}

RoadTokens ==
    { <<"lu">>, <<"jie">>, <<"xiang4">>, <<"nong">>, <<"da", "dao">>, <<"duan">> }

\* address_pattern = (county)[<xian><shi>]?.{0,15}(town).{0,30}(road).{0,30}\d+(...)?
\* search(line) is not None
address_pattern_matches(s) ==
    \E i \in 1..Len(s) :
        /\ \E d \in district_keywords : HasAt(s, i, d)
        /\ \E p \in {i + 2} \cup
                    (IF CharAt(s, i + 2) \in CountySuffix THEN {i + 3} ELSE {}) :
           \E j \in p..(p + 15) :
              /\ CharAt(s, j) \in TownSuffix
              /\ \E k \in (j + 1)..(j + 31) : \E r \in RoadTokens :
                    /\ HasAt(s, k, r)
                    /\ \E m \in (k + Len(r))..(k + Len(r) + 30) :
                          IsDigit(CharAt(s, m))

\* simple_address_pattern = .*(<shi>|<xian>).*(town).*\d+<hao>?
simple_address_matches(s) ==
    \E a \in 1..Len(s) : \E b \in (a + 1)..Len(s) : \E c \in (b + 1)..Len(s) :
        s[a] \in CountySuffix /\ s[b] \in TownSuffix /\ IsDigit(s[c])

HasDistrict(s) == \E d \in district_keywords : Contains(s, d)

-----------------------------------------------------------------------------
(* app.py: field extraction.  An image is what the three engines read on   *)
(* it: [cn |-> CnOCR lines, zh |-> EasyOCR lines, pd |-> PaddleOCR lines]. *)

\* the first truthy result of a scan over lines, found[i] being the result
\* on line i; None when no line gives one
FirstFound(found) ==
    LET P == {i \in DOMAIN found : found[i] # None}
    IN  IF P = {} THEN None ELSE found[MinOf(P)]

\* the sort with its key negated: sorted(matches, key=lambda x: len(x[0]))[0]
FirstShortest(matches) ==
    LET low == MinOf({Len(matches[i]) : i \in 1..Len(matches)})
    IN  matches[MinOf({i \in 1..Len(matches) : Len(matches[i]) = low})]

\* sorted(matches, key=lambda x: -len(x[0]))[0]: the first of the longest
FirstLongest(matches) ==
    LET top == MaxOf({Len(matches[i]) : i \in 1..Len(matches)})
    IN  matches[MinOf({i \in 1..Len(matches) : Len(matches[i]) = top})]

detect_fuel_type(text_combined) ==
    LET text    == ReplaceAll(text_combined, fuel_fuzzy_mapping)
        Present(fuel) == Contains(text, fuel)
        matches == SelectSeq(fuel_keywords, Present)
    IN  IF matches = <<>> THEN None ELSE fuel_mapping(FirstLongest(matches))

\* any(k in line for k in fuel_keywords)
HasFuelKeyword(line) ==
    \E k \in 1..Len(fuel_keywords) : Contains(line, fuel_keywords[k])

\* app.py 236-241: the four attempts made for the keyword line all_lines[i]
QuantityNearKeyword(all_lines, i) ==
    IF quantity_search(all_lines[i]) # None THEN quantity_search(all_lines[i])
    ELSE IF quantity_fallback_search(all_lines[i]) # None
        THEN quantity_fallback_search(all_lines[i])
    ELSE IF i + 1 <= Len(all_lines)
        THEN IF quantity_search(all_lines[i + 1]) # None
                THEN quantity_search(all_lines[i + 1])
                ELSE quantity_fallback_search(all_lines[i + 1])
    ELSE None

\* app.py 234-245
ExtractQuantity(all_lines) ==
    LET P == {i \in 1..Len(all_lines) :
                 /\ HasFuelKeyword(all_lines[i])
                 /\ QuantityNearKeyword(all_lines, i) # None}
    IN  IF P # {} THEN QuantityNearKeyword(all_lines, MinOf(P))
        ELSE
            FirstFound([i \in DOMAIN all_lines |->
                quantity_search(all_lines[i])])

\* app.py 254: district keyword and <hao> and a digit
LooseAddressLine(line) ==
    /\ HasDistrict(line)
    /\ Contains(line, <<"hao">>)
    /\ \E i \in 1..Len(line) : IsDigit(line[i])

\* app.py 250-254: the whole line is the address
ExtractAddress(zh_lines) ==
    LET S == {i \in 1..Len(zh_lines) : address_pattern_matches(zh_lines[i])}
        L == {i \in 1..Len(zh_lines) : LooseAddressLine(zh_lines[i])}
    IN  IF S # {} THEN zh_lines[MinOf(S)]
        ELSE IF L # {} THEN zh_lines[MinOf(L)]
        ELSE None

NoFields ==
    [invoice_number |-> None, date |-> None, quantity |-> None,
     fuel_type |-> None, address |-> None]

\* app.py 228-254: extraction from the CnOCR and EasyOCR lines
PrimarySecondary(cnocr_lines, zh_lines) ==
    [invoice_number |->
        FirstFound([i \in DOMAIN cnocr_lines |->
            invoice_number_search(cnocr_lines[i])]),
     date           |->
         FirstFound([i \in DOMAIN cnocr_lines |->
             date_search(cnocr_lines[i])]),
     quantity       |-> ExtractQuantity(cnocr_lines \o zh_lines),
     fuel_type      |-> detect_fuel_type(JoinLines(cnocr_lines \o zh_lines)),
     address        |-> ExtractAddress(zh_lines)]

\* app.py 257: not all([invoice_number, date, quantity, fuel_type, address])
FallbackWanted(f) ==
    \/ f.invoice_number = None \/ f.date = None \/ f.quantity = None
    \/ f.fuel_type = None \/ f.address = None

\* the pass with the guard `if not date` of app.py 264 dropped
PaddleRefill(f, paddle_lines) ==
    IF paddle_lines = <<>> THEN f
    ELSE [invoice_number |->
             IF f.invoice_number = None
             THEN
                 FirstFound([i \in DOMAIN paddle_lines |->
                     invoice_number_search(paddle_lines[i])])
             ELSE f.invoice_number,
          date |->
             FirstFound([i \in DOMAIN paddle_lines |->
                 date_search(paddle_lines[i])]),
          quantity |->
             IF f.quantity = None
             THEN
                 FirstFound([i \in DOMAIN paddle_lines |->
                     simple_quantity_search(paddle_lines[i])])
             ELSE f.quantity,
          fuel_type |->
             IF f.fuel_type = None THEN detect_fuel_type(JoinLines(paddle_lines))
             ELSE f.fuel_type,
          address |-> f.address]

\* app.py 259-272: fill the missing fields from the PaddleOCR lines
PaddleFill(f, paddle_lines) ==
    IF paddle_lines = <<>> THEN f
    ELSE [invoice_number |->
             IF f.invoice_number = None
             THEN
                 FirstFound([i \in DOMAIN paddle_lines |->
                     invoice_number_search(paddle_lines[i])])
             ELSE f.invoice_number,
          date |->
             IF f.date = None THEN
                 FirstFound([i \in DOMAIN paddle_lines |->
                     date_search(paddle_lines[i])])
             ELSE f.date,
          quantity |->
             IF f.quantity = None
             THEN
                 FirstFound([i \in DOMAIN paddle_lines |->
                     simple_quantity_search(paddle_lines[i])])
             ELSE f.quantity,
          fuel_type |->
             IF f.fuel_type = None THEN detect_fuel_type(JoinLines(paddle_lines))
             ELSE f.fuel_type,
          address |-> f.address]

address_replacements ==
    << << <<"ban", "yu", "xiu", "na">>, <<"wan", "luan", "xiang">> >>,
       << <<"hao_s">>, <<"hao">> >>,
       << <<"xiu">>, <<>> >>,
       << <<"na">>, <<>> >>,
       << <<"chao2", "zhou1">>, <<"chao2", "zhou">> >>,
       << <<"chuan">>, <<"zhou">> >>,
       << <<"suo">>, <<"zhen">> >> >>

\* app.py 275-277
CleanAddress(address) == ReplaceAll(address, address_replacements)

\* Python truthiness of an optional string: neither None nor ''
Truthy(v) == v # None /\ v # <<>>

\* app.py 284: the condition under which a (corrected) address is kept
AddressValid(address) ==
    /\ Len(address) >= 6
    /\ Contains(address, <<"hao">>)
    /\ HasDistrict(address)

\* mutant of Validate: the fuel type is surfaced as detected
ValidateKeepsFuel(f) ==
    LET address == IF Truthy(f.address) THEN CleanAddress(f.address)
                   ELSE f.address
    IN  [invoice_number |->
            IF Truthy(f.invoice_number)
               /\ ~invoice_number_fullmatch(f.invoice_number)
            THEN None ELSE f.invoice_number,
         date |->
            IF Truthy(f.date) /\ ~date_fullmatch(f.date) THEN None
            ELSE f.date,
         quantity |->
            IF Truthy(f.quantity) /\ ~FloatParses(f.quantity) THEN None
            ELSE f.quantity,
         fuel_type |-> f.fuel_type,
         address |->
            IF Truthy(address) /\ ~AddressValid(address) THEN None
            ELSE address]

\* the address checked as extracted and corrected afterwards
ValidateBeforeCleaning(f) ==
    [invoice_number |->
        IF Truthy(f.invoice_number)
           /\ ~invoice_number_fullmatch(f.invoice_number)
        THEN None ELSE f.invoice_number,
     date |->
        IF Truthy(f.date) /\ ~date_fullmatch(f.date) THEN None
        ELSE f.date,
     quantity |->
        IF Truthy(f.quantity) /\ ~FloatParses(f.quantity) THEN None
        ELSE f.quantity,
     fuel_type |->
        IF Truthy(f.fuel_type) /\ f.fuel_type \notin fuel_mapping_values
        THEN None ELSE f.fuel_type,
     address |->
        IF Truthy(f.address) /\ ~AddressValid(f.address) THEN None
        ELSE IF Truthy(f.address) THEN CleanAddress(f.address)
        ELSE f.address]

\* app.py 274-284: cleaning and validation
Validate(f) ==
    LET address == IF Truthy(f.address) THEN CleanAddress(f.address)
                   ELSE f.address
    IN  [invoice_number |->
            IF Truthy(f.invoice_number)
               /\ ~invoice_number_fullmatch(f.invoice_number)
            THEN None ELSE f.invoice_number,
         date |->
            IF Truthy(f.date) /\ ~date_fullmatch(f.date) THEN None
            ELSE f.date,
         quantity |->
            IF Truthy(f.quantity) /\ ~FloatParses(f.quantity) THEN None
            ELSE f.quantity,
         fuel_type |->
            IF Truthy(f.fuel_type) /\ f.fuel_type \notin fuel_mapping_values
            THEN None ELSE f.fuel_type,
         address |->
            IF Truthy(address) /\ ~AddressValid(address) THEN None
            ELSE address]

\* app.py 287-290: the returned dict
Row(img_name, f, remark) ==
    [page |-> img_name, invoice_number |-> f.invoice_number, date |-> f.date,
     fuel_type |-> f.fuel_type, quantity |-> f.quantity,
     address |-> f.address, remarks |-> remark]

\* img.fault names the engine whose inference call raises on this image
Faults == {"none", "cnocr", "easyocr", "paddleocr"}

\* app.py 225-226: .ocr / .readtext on None raises AttributeError
PrimaryRaises(img, eng) ==
    \/ eng["cnocr"] = NoEngine \/ img.fault = "cnocr"
    \/ eng["easyocr"] = NoEngine \/ img.fault = "easyocr"

\* the test of app.py 257 without `ocr_engines["paddleocr"] is not None`
FallbackRunsUnguarded(f, eng) == FallbackWanted(f)

\* app.py 257: the PaddleOCR pass runs
FallbackRuns(f, eng) == FallbackWanted(f) /\ eng["paddleocr"] # NoEngine

\* extract_invoice_info if it indexed the first CnOCR line without a test
ExtractRaisesOnBlank(img, eng) ==
    \/ PrimaryRaises(img, eng)
    \/ img.cn = <<>>
    \/ /\ FallbackRuns(PrimarySecondary(img.cn, img.zh), eng)
       /\ (img.fault = "paddleocr" \/ eng["paddleocr"] = NoEngine)

\* app.py 223-290: does extract_invoice_info raise
ExtractRaises(img, eng) ==
    \/ PrimaryRaises(img, eng)
    \/ /\ FallbackRuns(PrimarySecondary(img.cn, img.zh), eng)
       /\ (img.fault = "paddleocr" \/ eng["paddleocr"] = NoEngine)

\* app.py 223-290: the fields extract_invoice_info returns when it does not raise
ExtractFields(img, eng) ==
    LET f == PrimarySecondary(img.cn, img.zh)
    IN  Validate(IF FallbackRuns(f, eng) THEN PaddleFill(f, img.pd) ELSE f)

extract_invoice_info(img, img_name, eng) ==
    Row(img_name, ExtractFields(img, eng), <<>>)

\* str(e) of the exception a region pipeline raised
ErrorText(img, eng) ==
    IF eng["cnocr"] = NoEngine
       \/ (img.fault # "cnocr" /\ eng["easyocr"] = NoEngine)
    THEN <<"NoneType">> ELSE <<"inference", img.fault>>

\* mutant of ErrorRow: the except branch forgets the diagnostic remark
ErrorRowNoRemark(img_name, text) == Row(img_name, NoFields, <<>>)

\* app.py 301-304: the record of a region whose pipeline raised
ErrorRow(img_name, text) ==
    Row(img_name, NoFields, <<"chu3", "li3", "cuo", "wu4", ":", " ">> \o text)

\* app.py 292-304
process_single_invoice_thread_safe(img, img_name, eng) ==
    IF ExtractRaises(img, eng)
    THEN ErrorRow(img_name, ErrorText(img, eng))
    ELSE extract_invoice_info(img, img_name, eng)

-----------------------------------------------------------------------------
(* param.py: helper extractors used by the service layer.  The lines an    *)
(* engine returns carry no newline, so text.split('\n') is [text].         *)

DigitSeq == <<"0", "1", "2", "3", "4", "5", "6", "7", "8", "9">>

\* int(s) for a string of digits
RECURSIVE ToInt(_)
ToInt(s) ==
    IF s = <<>> THEN 0
    ELSE 10 * ToInt(SubSeq(s, 1, Len(s) - 1))
         + (CHOOSE k \in 0..9 : DigitSeq[k + 1] = s[Len(s)])

\* f"{n:0{width}d}" for n >= 0: the decimal digits, zero-padded to width
RECURSIVE Format(_, _)
Format(n, width) ==
    IF n < 10 /\ width <= 1 THEN <<DigitSeq[n + 1]>>
    ELSE Format(n \div 10, width - 1) \o <<DigitSeq[(n % 10) + 1]>>

\* s.strip()
Strip(s) ==
    LET N == {i \in 1..Len(s) : s[i] # " "}
    IN  IF N = {} THEN <<>> ELSE SubSeq(s, MinOf(N), MaxOf(N))

\* param.py 66-72
specific_corrections ==
    << << <<"|", "(", "F", "-">>, <<"K", "F", "-">> >>,
       << <<"|", "F", "-">>, <<"K", "F", "-">> >>,
       << <<";", "0", "-", "%">>, <<"K", "A", "-", "9", "9">> >>,
       << <<"0", "0", "-">>, <<"J", "J", "-">> >>,
       << <<"0", "-">>, <<"J", "-">> >> >>

\* param.py 78-82
char_corrections ==
    << << <<"%">>, <<"9">> >>,
       << <<";">>, <<"K">> >>,
       << <<"|">>, <<"J">> >> >>

correct_ocr_errors(text) ==
    ReplaceAll(ReplaceAll(text, specific_corrections), char_corrections)

\* invoice_number_mixed_pattern = [A-Z]{2}\d{8}
invoice_number_mixed_at(s, i) ==
    /\ i + 9 <= Len(s)
    /\ IsUpper(s[i]) /\ IsUpper(s[i + 1])
    /\ \A k \in 2..9 : IsDigit(s[i + k])

invoice_number_mixed_search(s) ==
    LET P == {i \in 1..Len(s) : invoice_number_mixed_at(s, i)}
    IN  IF P = {} THEN None ELSE SubSeq(s, MinOf(P), MinOf(P) + 9)

\* where the digits of ([A-Z0-9|;%]{2})-?(\d{7,8}) start for a match at i
OcrDigitsAt(s, i) == IF CharAt(s, i + 2) = "-" THEN i + 3 ELSE i + 2

\* invoice_number_ocr_pattern = ([A-Z0-9|;%]{2})-?(\d{7,8})
invoice_number_ocr_at(s, i) ==
    /\ i + 1 <= Len(s)
    /\ \A k \in {i, i + 1} :
          s[k] \in UpperLetters \cup Digits \cup {"|", ";", "%"}
    /\ OcrDigitsAt(s, i) <= Len(s)
    /\ DigitRun(s, OcrDigitsAt(s, i)) >= 7

\* f"{match.group(1)}-{match.group(2)}" of the leftmost match, else None
invoice_number_ocr_search(s) ==
    LET P == {i \in 1..Len(s) : invoice_number_ocr_at(s, i)}
        i == MinOf(P)
        d == OcrDigitsAt(s, i)
        n == IF DigitRun(s, d) >= 8 THEN 8 ELSE 7
    IN  IF P = {} THEN None
        ELSE SubSeq(s, i, i + 1) \o <<"-">> \o SubSeq(s, d, d + n - 1)

\* param.py 159-177 and 181-203: standard, then mixed, then error-tolerant
TryInvoicePatterns(line) ==
    LET mixed == invoice_number_mixed_search(line)
    IN  IF invoice_number_search(line) # None THEN invoice_number_search(line)
        ELSE IF mixed # None
            THEN IF Len(mixed) = 10 /\ IsUpper(mixed[1]) /\ IsUpper(mixed[2])
                 THEN SubSeq(mixed, 1, 2) \o <<"-">> \o SubSeq(mixed, 3, 10)
                 ELSE mixed
        ELSE invoice_number_ocr_search(line)

\* re.match(r'^\d{7,8}$', s)
IsVoucherNumber(s) ==
    Len(s) \in {7, 8} /\ \A i \in 1..Len(s) : IsDigit(s[i])

extract_invoice_number(text) ==
    LET corrected == correct_ocr_errors(text)
        label     == <<"chuanp", "piao", "hao", "ma">>
        skipped   == \/ Strip(corrected) \in
                           {label, label \o <<"colon_f">>, label \o <<":">>}
                     \/ IsVoucherNumber(Strip(corrected))
        inLine    == IF skipped THEN None ELSE TryInvoicePatterns(corrected)
    IN  IF inLine # None THEN inLine ELSE TryInvoicePatterns(corrected)

convert_roc_to_western_date(roc_year, month, day) ==
    LET western_year == ToInt(roc_year) + 1911
        m == ToInt(month)
        d == ToInt(day)
    IN  IF m < 1 \/ m > 12 THEN None
        ELSE IF d < 1 \/ d > 31 THEN None
        ELSE Format(western_year, 4) \o <<"-">> \o Format(m, 2)
             \o <<"-">> \o Format(d, 2)

\* roc_date_pattern = (\d{2,3})<nian>(\d{1,2})[-/](\d{1,2})<yue>
\* the group lengths <<a, b, c>> of a match starting at i (at most one)
roc_date_at(s, i) ==
    { g \in {2, 3} \X {1, 2} \X {1, 2} :
        /\ i + g[1] + g[2] + g[3] + 2 <= Len(s)
        /\ \A k \in 0..(g[1] - 1) : IsDigit(s[i + k])
        /\ s[i + g[1]] = "nian"
        /\ \A k \in 1..g[2] : IsDigit(s[i + g[1] + k])
        /\ s[i + g[1] + g[2] + 1] \in DateSeps
        /\ \A k \in 1..g[3] : IsDigit(s[i + g[1] + g[2] + 1 + k])
        /\ s[i + g[1] + g[2] + g[3] + 2] = "yue" }

\* simple_date_pattern = \d{4}[-/]\d{1,2}[-/]\d{1,2}
\* the lengths <<b, c>> of month and day for a match starting at i
simple_date_at(s, i) ==
    { g \in {1, 2} \X {1, 2} :
        /\ i + 5 + g[1] + g[2] <= Len(s)
        /\ \A k \in 0..3 : IsDigit(s[i + k])
        /\ s[i + 4] \in DateSeps
        /\ \A k \in 1..g[1] : IsDigit(s[i + 4 + k])
        /\ s[i + 5 + g[1]] \in DateSeps
        /\ \A k \in 1..g[2] : IsDigit(s[i + 5 + g[1] + k]) }

\* the greedy match: the longest day the digits allow
simple_date_search(s) ==
    LET P == {i \in 1..Len(s) : simple_date_at(s, i) # {}}
        i == MinOf(P)
        b == (CHOOSE g \in simple_date_at(s, i) : TRUE)[1]
        c == MaxOf({g[2] : g \in simple_date_at(s, i)})
    IN  IF P = {} THEN None ELSE SubSeq(s, i, i + 5 + b + c)

extract_and_convert_date(text) ==
    LET P == {i \in 1..Len(text) : roc_date_at(text, i) # {}}
        i == MinOf(P)
        g == CHOOSE h \in roc_date_at(text, i) : TRUE
    IN  IF P # {}
        THEN convert_roc_to_western_date(
                 SubSeq(text, i, i + g[1] - 1),
                 SubSeq(text, i + g[1] + 1, i + g[1] + g[2]),
                 SubSeq(text, i + g[1] + g[2] + 2, i + g[1] + g[2] + g[3] + 1))
        ELSE IF date_search(text) # None THEN date_search(text)
        ELSE simple_date_search(text)

\* quantity_with_context_pattern = <shu><liang>[:<colon_f>]\s*(\d+\.?\d*)
quantity_with_context_at(s, i) ==
    /\ i + 2 <= Len(s)
    /\ s[i] = "shu" /\ s[i + 1] = "liang" /\ s[i + 2] \in {":", "colon_f"}
    /\ NumberEnd(s, i + 3 + SpaceRun(s, i + 3)) > 0

quantity_with_context_search(s) ==
    LET P == {i \in 1..Len(s) : quantity_with_context_at(s, i)}
        p == MinOf(P) + 3 + SpaceRun(s, MinOf(P) + 3)
    IN  IF P = {} THEN None ELSE SubSeq(s, p, NumberEnd(s, p) - 1)

extract_quantity(text) ==
    IF quantity_with_context_search(text) # None
        THEN quantity_with_context_search(text)
    ELSE IF quantity_search(text) # None THEN quantity_search(text)
    ELSE IF quantity_fallback_search(text) # None
        THEN quantity_fallback_search(text)
    ELSE simple_quantity_search(text)

-----------------------------------------------------------------------------
(* services/ocr_service.py: OCRService._extract_invoice_info               *)

\* ocr_service.py 199-217: address_pattern, then simple_address_pattern
ServiceAddress(lines) ==
    LET S == {i \in 1..Len(lines) : address_pattern_matches(lines[i])}
        L == {i \in 1..Len(lines) : simple_address_matches(lines[i])}
    IN  IF S # {} THEN lines[MinOf(S)]
        ELSE IF L # {} THEN lines[MinOf(L)]
        ELSE None

\* ocr_service.py 169-217: extraction from all_lines
ServicePrimary(all_lines) ==
    [invoice_number |->
        FirstFound([i \in DOMAIN all_lines |->
            extract_invoice_number(all_lines[i])]),
     date           |->
         FirstFound([i \in DOMAIN all_lines |->
             extract_and_convert_date(all_lines[i])]),
     quantity       |->
         FirstFound([i \in DOMAIN all_lines |->
             extract_quantity(all_lines[i])]),
     fuel_type      |-> detect_fuel_type(JoinLines(all_lines)),
     address        |-> ServiceAddress(all_lines)]

\* ocr_service.py 220: not all([invoice_number, date, quantity, fuel_type])
ServiceFallbackWanted(f) ==
    \/ f.invoice_number = None \/ f.date = None \/ f.quantity = None
    \/ f.fuel_type = None

\* ocr_service.py 273-316: an exception of the engine leaves the fields as
\* they are
OCRService_extract_with_paddle_ocr(f, img) ==
    IF img.fault = "paddleocr" \/ img.pd = <<>> THEN f
    ELSE [invoice_number |->
             IF f.invoice_number = None
             THEN
                 FirstFound([i \in DOMAIN img.pd |->
                     extract_invoice_number(img.pd[i])])
             ELSE f.invoice_number,
          date |->
             IF f.date = None THEN
                 FirstFound([i \in DOMAIN img.pd |->
                     extract_and_convert_date(img.pd[i])])
             ELSE f.date,
          quantity |->
             IF f.quantity = None THEN
                 FirstFound([i \in DOMAIN img.pd |->
                     extract_quantity(img.pd[i])])
             ELSE f.quantity,
          fuel_type |->
             IF f.fuel_type = None THEN detect_fuel_type(JoinLines(img.pd))
             ELSE f.fuel_type,
          address |-> f.address]

\* ocr_service.py 333-344: the value is returned whether or not it matches
OCRService_validate_invoice_number(invoice_number) ==
    IF ~Truthy(invoice_number) THEN None
    ELSE IF \/ invoice_number_fullmatch(invoice_number)
            \/ IsVoucherNumber(invoice_number)
            \/ /\ Len(invoice_number) = 10
               /\ invoice_number_mixed_at(invoice_number, 1)
        THEN invoice_number
    ELSE invoice_number

\* ocr_service.py 346-361: the value is returned whether or not it parses
OCRService_validate_date(date) ==
    IF ~Truthy(date) THEN None
    ELSE IF date_fullmatch(date) THEN date
    ELSE date

\* ocr_service.py 363-371
OCRService_validate_quantity(quantity) ==
    IF Truthy(quantity) /\ ~FloatParses(quantity) THEN None ELSE quantity

\* ocr_service.py 373-377
OCRService_validate_fuel_type(fuel_type) ==
    IF Truthy(fuel_type) /\ fuel_type \notin fuel_mapping_values THEN None
    ELSE fuel_type

\* ocr_service.py 379-400: only an address shorter than 5 is dropped
OCRService_validate_address(address) ==
    LET has_location_marker ==
            Contains(address, <<"hao">>) \/ Contains(address, <<"hao_s">>)
        has_district == HasDistrict(address)
        has_road_marker == \E r \in RoadTokens : Contains(address, r)
        criteria_met ==
            Cardinality({c \in {<<1, has_location_marker>>, <<2, has_district>>,
                                <<3, has_road_marker>>} : c[2]})
    IN  IF ~Truthy(address) THEN None
        ELSE IF Len(address) < 5 THEN None
        ELSE IF criteria_met >= 2 THEN address
        ELSE address

\* ocr_service.py 318-331 and 225
OCRService_clean_address(address) ==
    IF Truthy(address) THEN CleanAddress(address) ELSE None

\* ocr_service.py 224-230
OCRService_validate(f) ==
    [invoice_number |-> OCRService_validate_invoice_number(f.invoice_number),
     date           |-> OCRService_validate_date(f.date),
     quantity       |-> OCRService_validate_quantity(f.quantity),
     fuel_type      |-> OCRService_validate_fuel_type(f.fuel_type),
     address        |->
         OCRService_validate_address(OCRService_clean_address(f.address))]

\* ocr_service.py 245-251: the record of a region whose pipeline raised
ServiceErrorRow(img_name, text) ==
    Row(img_name, NoFields, <<"Processing error: ">> \o text)

\* ocr_service.py 152-251
OCRService_extract_invoice_info(img, img_name) ==
    LET f == ServicePrimary(img.cn \o img.zh)
    IN  IF img.fault \in {"cnocr", "easyocr"}
        THEN ServiceErrorRow(img_name, <<"inference", img.fault>>)
        ELSE Row(img_name,
                 OCRService_validate(
                     IF ServiceFallbackWanted(f)
                     THEN OCRService_extract_with_paddle_ocr(f, img) ELSE f),
                 <<>>)

-----------------------------------------------------------------------------
(* services/ocr_service_fixed.py: OCRServiceFixed._extract_invoice_info,   *)
(* the pipeline behind the /ocr/process-pdf route; it reads EasyOCR only.  *)

\* ocr_service_fixed.py 161-196: extraction from the joined text
FixedExtract(ocr_result) ==
    [invoice_number |-> extract_invoice_number(JoinLines(ocr_result)),
     date           |-> extract_and_convert_date(JoinLines(ocr_result)),
     quantity       |-> extract_quantity(JoinLines(ocr_result)),
     fuel_type      |-> detect_fuel_type(JoinLines(ocr_result)),
     address        |-> ServiceAddress(ocr_result)]

\* ocr_service_fixed.py 263-265
OCRServiceFixed_validate_invoice_number(invoice_number) == invoice_number

\* ocr_service_fixed.py 267-269
OCRServiceFixed_validate_date(date) == date

\* ocr_service_fixed.py 271-279
OCRServiceFixed_validate_quantity(quantity) ==
    IF Truthy(quantity)
    THEN IF FloatParses(quantity) THEN quantity ELSE quantity
    ELSE quantity

\* ocr_service_fixed.py 281-283
OCRServiceFixed_validate_fuel_type(fuel_type) == fuel_type

\* ocr_service_fixed.py 285-287
OCRServiceFixed_validate_address(address) == address

\* ocr_service_fixed.py 198-204
OCRServiceFixed_validate(f) ==
    [invoice_number |->
         OCRServiceFixed_validate_invoice_number(f.invoice_number),
     date           |-> OCRServiceFixed_validate_date(f.date),
     quantity       |-> OCRServiceFixed_validate_quantity(f.quantity),
     fuel_type      |-> OCRServiceFixed_validate_fuel_type(f.fuel_type),
     address        |->
         OCRServiceFixed_validate_address(OCRService_clean_address(f.address))]

\* ocr_service_fixed.py 141-226
OCRServiceFixed_extract_invoice_info(img, img_name) ==
    IF img.fault = "easyocr"
    THEN ServiceErrorRow(img_name, <<"inference", img.fault>>)
    ELSE Row(img_name, OCRServiceFixed_validate(FixedExtract(img.zh)), <<>>)

-----------------------------------------------------------------------------
(* The images a PDF of the batch runs is cut into.                         *)

\* lines an engine may read on a region, by what they show
SampleLines ==
    [ invoice |->
        <<"K", "F", "-", "2", "6", "5", "2", "3", "8", "9", "5">>,
      invoice7 |->
        <<"K", "F", "-", "2", "6", "5", "2", "3", "8", "9">>,
      misread |->
        <<"|", "(", "F", "-", "2", "6", "5", "2", "3", "8", "9", "5">>,
      mixed |->
        <<"J", "J", "7", "5", "9", "2", "5", "0", "9", "2">>,
      phone |->
        <<"0", "9", "1", "2", "3", "4", "5", "6", "7", "8">>,
      voucher |->
        <<"1", "2", "3", "4", "5", "6", "7">>,
      date |->
        <<"2", "0", "2", "3", "-", "0", "5", "-", "1", "0">>,
      roc_date |->
        <<"1", "1", "2", "nian", "0", "5", "-", "1", "0", "yue">>,
      roc_bad_month |->
        <<"1", "1", "2", "nian", "1", "3", "-", "1", "0", "yue">>,
      slash_date |->
        <<"2", "0", "2", "3", "/", "5", "/", "1">>,
      fuel_qty |->
        <<"9", "5", " ", "3", "0", ".", "6", "L">>,
      fuel_hao |->
        <<"9", "5", "hao", " ", "3", "0", "L">>,
      unleaded |->
        <<"wu2", "qian", "qi", "you", " ", "2", "0", ".", "5">>,
      fuel_two |->
        <<"9", "5", " ", "chao", "ji_s", "chai", "you">>,
      qty_unit |->
        <<"4", "0", ".", "2", "L">>,
      fuzzy |->
        <<"jiu", "wu", "wu2", "gei", " ", "1", "2", "gong", "sheng">>,
      qty_context |->
        <<"shu", "liang", ":", "3", "0", ".", "6">>,
      address |->
        <<"tai", "bei", "shi", "da", "an", "qu", "he", "ping", "lu", "1",
        "hao">>,
      address_no_hao |->
        <<"tai", "bei", "shi", "da", "an", "qu", "he", "ping", "lu", "1">>,
      address_short |->
        <<"tai", "bei", "1", "hao">>,
      address_hao_s |->
        <<"tai", "bei", "shi", "da", "an", "qu", "he", "ping", "lu", "1",
        "hao_s">> ]

\* CnOCR and EasyOCR read everything but the date, which PaddleOCR reads
ImgClear ==
    [cn |-> <<SampleLines.invoice, SampleLines.fuel_qty>>,
     zh |-> <<SampleLines.address>>,
     pd |-> <<SampleLines.date>>, fault |-> "none"]

\* EasyOCR raises on this crop
ImgBroken ==
    [cn |-> <<SampleLines.invoice>>, zh |-> <<>>, pd |-> <<>>, fault |-> "easyocr"]

BatchImages == {ImgClear, ImgBroken}

-----------------------------------------------------------------------------
(* app.py: init_ocr_engines and process_invoice_pdf as a state machine.    *)

\* bound: regions per PDF when one request runs at a time
MaxRegions == 2

\* bound: regions per PDF when two requests overlap
ConcRegions == 1

\* bound: regions per PDF when the pool size is under study
PoolRegions == 5

\* the most regions a PDF yields in any specification
RegionNames ==
    1..(IF PoolRegions > MaxRegions THEN PoolRegions ELSE MaxRegions)

\* app.py 315: min(4, ...)
MaxThreads == 4

CpuCounts == {0, 2}

\* a slot of results that no task has written: [None] * num_invoices
Unset == Row(0, NoFields, None)

\* the size without the cap: min(num_invoices, os.cpu_count() or 4)
PoolSizeUncapped(num_invoices, cpus) ==
    MinOf({num_invoices, IF cpus = 0 THEN MaxThreads ELSE cpus})

\* app.py 315: min(4, num_invoices, os.cpu_count() or 4)
PoolSize(num_invoices, cpus) ==
    MinOf({MaxThreads, num_invoices, IF cpus = 0 THEN MaxThreads ELSE cpus})

\* no call of process_invoice_pdf has started
BatchIdle ==
    /\ calls = 0
    /\ temp_dir = FALSE
    /\ cropped_dir = FALSE
    /\ cropped = <<>>
    /\ pc = [t \in Callers |-> "idle"]
    /\ invoice_images = [t \in Callers |-> <<>>]
    /\ crops = [t \in Callers |-> <<>>]
    /\ completed = [t \in Callers |-> <<>>]
    /\ max_workers = [t \in Callers |-> 0]
    /\ task = [t \in Callers |-> <<>>]
    /\ future = [t \in Callers |-> <<>>]
    /\ results = [t \in Callers |-> <<>>]
    /\ failure = [t \in Callers |-> "none"]
    /\ report = [t \in Callers |-> <<>>]

\* no segmenter under study
NoPdf ==
    /\ pdf = [readable |-> TRUE, pages |-> <<>>]
    /\ detector = "none"
    /\ kernels = <<>>
    /\ region_files = <<>>

NoRegion == [cn |-> <<>>, zh |-> <<>>, pd |-> <<>>, fault |-> "none"]

\* os.cpu_count() where the pool size is under study: unknown, 2 or 8
PoolCpuCounts == {0, 2, 8}

\* a fresh process: nothing imported, no engine built, no region read
FreshProcess ==
    /\ lib = [e \in Engines |-> FALSE]
    /\ ocr_engines = [e \in Engines |-> NoEngine]
    /\ ctorCount = [e \in Engines |-> 0]
    /\ ctorFailed = [e \in Engines |-> FALSE]
    /\ BatchIdle
    /\ region = NoRegion
    /\ pipeline = "none"
    /\ record = Unset
    /\ raised = FALSE
    /\ paddle_calls = 0
    /\ primary_fields = NoFields
    /\ filled_fields = NoFields
    /\ NoPdf

\* any machine: each engine library installed or not
EnvInit ==
    /\ callCap = MaxCalls
    /\ pages = BatchImages
    /\ installed \in [Engines -> BOOLEAN]
    /\ cpu_count \in CpuCounts
    /\ FreshProcess

\* one request thread, calling process_invoice_pdf again and again
Init == callers = {1} /\ regionCap = MaxRegions /\ EnvInit

\* two request threads (the development server handles requests in threads)
InitConc == callers = Callers /\ regionCap = ConcRegions /\ EnvInit

\* OCRProcessPDF.post calls process_invoice_pdf(pdf_path)
Call(t) ==
    /\ pc[t] \in {"idle", "returned", "raised"}
    /\ calls < callCap
    /\ calls' = calls + 1
    /\ pc' = [pc EXCEPT ![t] = "init"]
    /\ invoice_images' = [invoice_images EXCEPT ![t] = <<>>]
    /\ crops' = [crops EXCEPT ![t] = <<>>]
    /\ completed' = [completed EXCEPT ![t] = <<>>]
    /\ max_workers' = [max_workers EXCEPT ![t] = 0]
    /\ task' = [task EXCEPT ![t] = <<>>]
    /\ future' = [future EXCEPT ![t] = <<>>]
    /\ results' = [results EXCEPT ![t] = <<>>]
    /\ failure' = [failure EXCEPT ![t] = "none"]
    /\ report' = [report EXCEPT ![t] = <<>>]
    /\ UNCHANGED <<cfgVars, extractVars, segVars, engineVars, dirVars>>

\* app.py 111: if ocr_engines["cnocr"] is None
InitCheck(t) ==
    /\ pc[t] = "init"
    /\ pc' = [pc EXCEPT ![t] =
                IF ocr_engines["cnocr"] = NoEngine THEN "import" ELSE "segment"]
    /\ UNCHANGED <<cfgVars, extractVars, segVars, engineVars, dirVars, batchVars, calls>>

\* app.py 115-137: the three guarded imports; ImportError is swallowed
InitImport(t) ==
    /\ pc[t] = "import"
    /\ lib' = [e \in Engines |-> lib[e] \/ installed[e]]
    /\ pc' = [pc EXCEPT ![t] = "cnocr"]
    /\ UNCHANGED <<cfgVars, extractVars, segVars, ocr_engines, ctorCount, ctorFailed, dirVars,
                   batchVars, calls>>

\* one "if Lib: try: ocr_engines[e] = Lib(...) except: ocr_engines[e] = None"
Construct(e, built) ==
    IF ~lib[e] THEN UNCHANGED <<ocr_engines, ctorCount, ctorFailed>>
    ELSE IF built
    THEN /\ ctorCount' = [ctorCount EXCEPT ![e] = @ + 1]
         /\ ocr_engines' = [ocr_engines EXCEPT ![e] = ctorCount[e] + 1]
         /\ ctorFailed' = [ctorFailed EXCEPT ![e] = FALSE]
    ELSE /\ ocr_engines' = [ocr_engines EXCEPT ![e] = NoEngine]
         /\ ctorFailed' = [ctorFailed EXCEPT ![e] = TRUE]
         /\ UNCHANGED ctorCount

\* mutant of InitCnOcr: one try block around all three constructors, so a
\* CnOCR failure leaves the other two engines unbuilt
InitCnOcrAbort(t) ==
    /\ pc[t] = "cnocr"
    /\ \E built \in BOOLEAN :
          /\ Construct("cnocr", built)
          /\ pc' = [pc EXCEPT ![t] =
                       IF lib["cnocr"] /\ ~built THEN "segment" ELSE "easyocr"]
    /\ UNCHANGED <<cfgVars, extractVars, segVars, lib, dirVars, batchVars, calls>>

\* app.py 140-148
InitCnOcr(t) ==
    /\ pc[t] = "cnocr"
    /\ \E built \in BOOLEAN : Construct("cnocr", built)
    /\ pc' = [pc EXCEPT ![t] = "easyocr"]
    /\ UNCHANGED <<cfgVars, extractVars, segVars, lib, dirVars, batchVars, calls>>

\* app.py 151-159
InitEasyOcr(t) ==
    /\ pc[t] = "easyocr"
    /\ \E built \in BOOLEAN : Construct("easyocr", built)
    /\ pc' = [pc EXCEPT ![t] = "paddleocr"]
    /\ UNCHANGED <<cfgVars, extractVars, segVars, lib, dirVars, batchVars, calls>>

\* app.py 162-179: new-style arguments, then the old-style ones
InitPaddleOcr(t) ==
    /\ pc[t] = "paddleocr"
    /\ \E new \in BOOLEAN, old \in BOOLEAN : Construct("paddleocr", new \/ old)
    /\ pc' = [pc EXCEPT ![t] = "segment"]
    /\ UNCHANGED <<cfgVars, extractVars, segVars, lib, dirVars, batchVars, calls>>

\* the region file names of a page cut into n regions: block 0 .. n-1
BlockNames(n) == [j \in 1..n |-> j]

\* cv2.imwrite of every crop: a file of the same name is overwritten
WriteCrops(files, imgs) ==
    [j \in (DOMAIN files) \cup (DOMAIN imgs) |->
        IF j \in DOMAIN imgs THEN imgs[j] ELSE files[j]]

\* app.py 310, 181-208: detect_invoices_from_pdf; convert_from_path raises on
\* an unreadable PDF, after both directories were made
Segment(t) ==
    /\ pc[t] = "segment"
    /\ temp_dir' = TRUE
    /\ cropped_dir' = TRUE
    /\ \E readable \in BOOLEAN :
          IF ~readable
          THEN /\ pc' = [pc EXCEPT ![t] = "raised"]
               /\ failure' = [failure EXCEPT ![t] = "segmentation"]
               /\ UNCHANGED <<cropped, invoice_images, crops>>
          ELSE \E n \in 0..regionCap : \E imgs \in [1..n -> pages] :
               /\ cropped' = WriteCrops(cropped, imgs)
               /\ invoice_images' = [invoice_images EXCEPT ![t] = BlockNames(n)]
               /\ crops' = [crops EXCEPT ![t] = imgs]
               /\ pc' = [pc EXCEPT ![t] = "sized"]
               /\ UNCHANGED failure
    /\ UNCHANGED <<cfgVars, extractVars, segVars, engineVars, calls, max_workers, task, future,
                   results, completed, report>>

\* app.py 311-326: pool sizing, the slot list, the executor and the submits;
\* ThreadPoolExecutor(max_workers=0) raises ValueError
MakePool(t) ==
    LET num_invoices == Len(invoice_images[t])
        size == PoolSize(num_invoices, cpu_count)
    IN  /\ pc[t] = "sized"
        /\ max_workers' = [max_workers EXCEPT ![t] = size]
        /\ results' = [results EXCEPT ![t] = [i \in 1..num_invoices |-> Unset]]
        /\ IF size <= 0
           THEN /\ pc' = [pc EXCEPT ![t] = "raised"]
                /\ failure' = [failure EXCEPT ![t] = "pool"]
                /\ UNCHANGED <<task, future>>
           ELSE /\ pc' = [pc EXCEPT ![t] = "pool"]
                /\ task' = [task EXCEPT ![t] =
                               [i \in 1..num_invoices |-> "queued"]]
                /\ future' = [future EXCEPT ![t] =
                                 [i \in 1..num_invoices |-> Unset]]
                /\ UNCHANGED failure
        /\ UNCHANGED <<cfgVars, extractVars, segVars, engineVars, dirVars, calls, invoice_images,
                       crops, completed, report>>

Running(t) == {i \in DOMAIN task[t] : task[t][i] = "running"}

\* a free worker takes the oldest queued task
StartTask(t, i) ==
    /\ pc[t] = "pool"
    /\ i \in DOMAIN task[t]
    /\ task[t][i] = "queued"
    /\ \A j \in 1..(i - 1) : task[t][j] # "queued"
    /\ Cardinality(Running(t)) < max_workers[t]
    /\ task' = [task EXCEPT ![t][i] = "running"]
    /\ UNCHANGED <<cfgVars, extractVars, segVars, engineVars, dirVars, calls, pc, invoice_images,
                   crops, max_workers, future, results, completed, failure,
                   report>>

\* which engines exist: the pipeline only tests them against None
Available(eng) == [e \in Engines |-> eng[e] # NoEngine]

\* the region pipeline is a pure function of the crop, its file name and the
\* engines that exist; it is tabulated once: <<img, name, avail, row>>
PipelineTable ==
    { <<img, name, avail,
        process_single_invoice_thread_safe(img, name,
            [e \in Engines |-> IF avail[e] THEN 1 ELSE NoEngine])>> :
      img \in BatchImages, name \in RegionNames,
      avail \in [Engines -> BOOLEAN] }

RegionRow(img, name, eng) ==
    (CHOOSE p \in PipelineTable :
        p[1] = img /\ p[2] = name /\ p[3] = Available(eng))[4]

\* what a task gets for region file name: a missing file makes CnOCR raise
RunRegion(name) ==
    IF name \in DOMAIN cropped
    THEN RegionRow(cropped[name], name, ocr_engines)
    ELSE ErrorRow(name, <<"FileNotFound">>)

\* app.py 324: process_single_invoice_thread_safe(img_path, i + 1) completes
FinishTask(t, i) ==
    /\ pc[t] = "pool"
    /\ i \in DOMAIN task[t]
    /\ task[t][i] = "running"
    /\ task' = [task EXCEPT ![t][i] = "done"]
    /\ future' = [future EXCEPT ![t][i] = RunRegion(invoice_images[t][i])]
    /\ UNCHANGED <<cfgVars, extractVars, segVars, engineVars, dirVars, calls, pc, invoice_images,
                   crops, max_workers, results, completed, failure, report>>

\* mutant of Collect: the result is stored in completion order,
\* results[completed_count] = future.result()
CollectInCompletionOrder(t, i) ==
    /\ pc[t] = "pool"
    /\ i \in DOMAIN task[t]
    /\ task[t][i] = "done"
    /\ task' = [task EXCEPT ![t][i] = "collected"]
    /\ results' = [results EXCEPT ![t][Len(completed[t]) + 1] = future[t][i]]
    /\ completed' = [completed EXCEPT ![t] = Append(@, i)]
    /\ UNCHANGED <<cfgVars, extractVars, segVars, engineVars, dirVars, calls, pc, invoice_images,
                   crops, max_workers, future, failure, report>>

\* app.py 330-335: as_completed yields a finished future;
\* results[index] = future.result()
Collect(t, i) ==
    /\ pc[t] = "pool"
    /\ i \in DOMAIN task[t]
    /\ task[t][i] = "done"
    /\ task' = [task EXCEPT ![t][i] = "collected"]
    /\ results' = [results EXCEPT ![t][i] = future[t][i]]
    /\ completed' = [completed EXCEPT ![t] = Append(@, i)]
    /\ UNCHANGED <<cfgVars, extractVars, segVars, engineVars, dirVars, calls, pc, invoice_images,
                   crops, max_workers, future, failure, report>>

\* the with block left without waiting for the futures, as after
\* executor.shutdown(wait=False) and a loop that stops early
PoolExitEarly(t) ==
    /\ pc[t] = "pool"
    /\ pc' = [pc EXCEPT ![t] = "report"]
    /\ UNCHANGED <<cfgVars, extractVars, segVars, engineVars, dirVars, calls, batchVars>>

\* app.py 336-338: every future was yielded; the with block is left
PoolExit(t) ==
    /\ pc[t] = "pool"
    /\ \A i \in DOMAIN task[t] : task[t][i] = "collected"
    /\ pc' = [pc EXCEPT ![t] = "report"]
    /\ UNCHANGED <<cfgVars, extractVars, segVars, engineVars, dirVars, calls, batchVars>>

\* app.py 340-344: DataFrame(results).to_excel(report_path); it raises when
\* the report cannot be written
WriteReport(t) ==
    /\ pc[t] = "report"
    /\ \E written \in BOOLEAN :
          IF written
          THEN /\ report' = [report EXCEPT ![t] = results[t]]
               /\ pc' = [pc EXCEPT ![t] = "purge"]
               /\ UNCHANGED failure
          ELSE /\ pc' = [pc EXCEPT ![t] = "raised"]
               /\ failure' = [failure EXCEPT ![t] = "report"]
               /\ UNCHANGED report
    /\ UNCHANGED <<cfgVars, extractVars, segVars, engineVars, dirVars, calls, invoice_images,
                   crops, max_workers, task, future, results, completed>>

\* app.py 345-347: both rmtree calls, then return report_path, results
Purge(t) ==
    /\ pc[t] = "purge"
    /\ temp_dir' = FALSE
    /\ cropped_dir' = FALSE
    /\ cropped' = <<>>
    /\ pc' = [pc EXCEPT ![t] = "returned"]
    /\ UNCHANGED <<cfgVars, extractVars, segVars, engineVars, calls, batchVars>>

Next ==
    \/ \E t \in callers : Call(t)
    \/ \E t \in callers : InitCheck(t)
    \/ \E t \in callers : InitImport(t)
    \/ \E t \in callers : InitCnOcr(t)
    \/ \E t \in callers : InitEasyOcr(t)
    \/ \E t \in callers : InitPaddleOcr(t)
    \/ \E t \in callers : Segment(t)
    \/ \E t \in callers : MakePool(t)
    \/ \E t \in callers : \E i \in 1..regionCap : StartTask(t, i)
    \/ \E t \in callers : \E i \in 1..regionCap : FinishTask(t, i)
    \/ \E t \in callers : \E i \in 1..regionCap : Collect(t, i)
    \/ \E t \in callers : PoolExit(t)
    \/ \E t \in callers : WriteReport(t)
    \/ \E t \in callers : Purge(t)

Spec == Init /\ [][Next]_vars

SpecConc == InitConc /\ [][Next]_vars

\* fair scheduling: a thread that can take its next step takes it, each free
\* worker takes a waiting task and every region pipeline that started
\* completes; nobody is obliged to call process_invoice_pdf again
Fairness ==
    \A t \in Callers :
        /\ WF_vars(InitCheck(t)) /\ WF_vars(InitImport(t))
        /\ WF_vars(InitCnOcr(t)) /\ WF_vars(InitEasyOcr(t))
        /\ WF_vars(InitPaddleOcr(t))
        /\ WF_vars(Segment(t)) /\ WF_vars(MakePool(t))
        /\ WF_vars(\E i \in 1..regionCap : StartTask(t, i))
        /\ WF_vars(\E i \in 1..regionCap : FinishTask(t, i))
        /\ WF_vars(\E i \in 1..regionCap : Collect(t, i))
        /\ WF_vars(PoolExit(t)) /\ WF_vars(WriteReport(t))
        /\ WF_vars(Purge(t))

SpecFair == Init /\ [][Next]_vars /\ Fairness

\* one request thread on a machine with every library, PDFs of up to
\* PoolRegions regions
InitPool ==
    /\ callers = {1}
    /\ regionCap = PoolRegions
    /\ callCap = 1
    /\ pages = {ImgClear}
    /\ installed = [e \in Engines |-> TRUE]
    /\ cpu_count \in PoolCpuCounts
    /\ FreshProcess

SpecPool == InitPool /\ [][Next]_vars

-----------------------------------------------------------------------------
(* One region through each of the three extraction pipelines: the lines    *)
(* the engines may read on a region, and one step per pipeline.            *)

\* what CnOCR may read on a region
CnReads ==
    { <<>>,
      <<SampleLines.invoice, SampleLines.fuel_qty>>,
      <<SampleLines.invoice, SampleLines.fuel_hao>>,
      <<SampleLines.invoice, SampleLines.date, SampleLines.fuel_qty>>,
      <<SampleLines.invoice7, SampleLines.date>>,
      <<SampleLines.misread, SampleLines.roc_date>>,
      <<SampleLines.mixed, SampleLines.slash_date>>,
      <<SampleLines.phone, SampleLines.unleaded>>,
      <<SampleLines.roc_bad_month, SampleLines.qty_context>>,
      <<SampleLines.fuzzy, SampleLines.voucher>>,
      <<SampleLines.fuel_two>>,
      <<SampleLines.invoice, SampleLines.address>> }

\* what EasyOCR may read on a region
ZhReads ==
    { <<>>,
      <<SampleLines.address>>,
      <<SampleLines.address_no_hao>>,
      <<SampleLines.address_short>>,
      <<SampleLines.address_hao_s>>,
      <<SampleLines.fuel_hao, SampleLines.slash_date>>,
      <<SampleLines.invoice7, SampleLines.address>>,
      <<SampleLines.qty_unit>>,
      <<SampleLines.address_short, SampleLines.address>> }

\* what PaddleOCR may read on a region
PdReads ==
    { <<>>,
      <<SampleLines.date>>,
      <<SampleLines.invoice, SampleLines.fuel_qty>>,
      <<SampleLines.fuel_hao, SampleLines.roc_date>> }

ExtractRegions == [cn : CnReads, zh : ZhReads, pd : PdReads, fault : Faults]

\* the engines of a process whose init_ocr_engines has run: PaddleOCR may
\* have failed to build
BuiltEngines ==
    { [e \in Engines |-> 1],
      [e \in Engines |-> IF e = "paddleocr" THEN NoEngine ELSE 1] }

InitExtract ==
    /\ callers = {}
    /\ regionCap = 0
    /\ callCap = 0
    /\ pages = {}
    /\ installed = [e \in Engines |-> TRUE]
    /\ cpu_count = 0
    /\ lib = [e \in Engines |-> TRUE]
    /\ ocr_engines \in BuiltEngines
    /\ ctorCount = [e \in Engines |-> IF ocr_engines[e] = NoEngine THEN 0 ELSE 1]
    /\ ctorFailed = [e \in Engines |-> ocr_engines[e] = NoEngine]
    /\ BatchIdle
    /\ region \in ExtractRegions
    /\ pipeline = "none"
    /\ record = Unset
    /\ raised = FALSE
    /\ paddle_calls = 0
    /\ primary_fields = NoFields
    /\ filled_fields = NoFields
    /\ NoPdf

\* app.py 223-290: extract_invoice_info(img_path) on the region
AppExtractInvoiceInfo ==
    LET f == PrimarySecondary(region.cn, region.zh)
    IN  /\ pipeline = "none"
        /\ pipeline' = "app"
        /\ raised' = ExtractRaises(region, ocr_engines)
        /\ record' = IF ExtractRaises(region, ocr_engines) THEN Unset
                     ELSE extract_invoice_info(region, 1, ocr_engines)
        /\ paddle_calls' =
              IF ~PrimaryRaises(region, ocr_engines) /\ FallbackRuns(f, ocr_engines)
              THEN 1 ELSE 0
        /\ primary_fields' =
              IF PrimaryRaises(region, ocr_engines) THEN NoFields ELSE f
        /\ filled_fields' =
              IF PrimaryRaises(region, ocr_engines) THEN NoFields
              ELSE IF ExtractRaises(region, ocr_engines) THEN f
              ELSE IF FallbackRuns(f, ocr_engines) THEN PaddleFill(f, region.pd)
              ELSE f
        /\ UNCHANGED <<cfgVars, engineVars, dirVars, batchVars, segVars, pc,
                       calls, region>>

\* ocr_service.py 152-251: OCRService._extract_invoice_info(img_path)
ServiceExtractInvoiceInfo ==
    LET f == ServicePrimary(region.cn \o region.zh)
        reads == region.fault \notin {"cnocr", "easyocr"}
    IN  /\ pipeline = "none"
        /\ pipeline' = "service"
        /\ raised' = FALSE
        /\ record' = OCRService_extract_invoice_info(region, 1)
        /\ paddle_calls' = IF reads /\ ServiceFallbackWanted(f) THEN 1 ELSE 0
        /\ primary_fields' = IF reads THEN f ELSE NoFields
        /\ filled_fields' =
              IF ~reads THEN NoFields
              ELSE IF ServiceFallbackWanted(f)
                  THEN OCRService_extract_with_paddle_ocr(f, region)
              ELSE f
        /\ UNCHANGED <<cfgVars, engineVars, dirVars, batchVars, segVars, pc,
                       calls, region>>

\* ocr_service_fixed.py 141-226: OCRServiceFixed._extract_invoice_info(img_path)
FixedExtractInvoiceInfo ==
    LET f == IF region.fault = "easyocr" THEN NoFields
             ELSE FixedExtract(region.zh)
    IN  /\ pipeline = "none"
        /\ pipeline' = "fixed"
        /\ raised' = FALSE
        /\ record' = OCRServiceFixed_extract_invoice_info(region, 1)
        /\ paddle_calls' = 0
        /\ primary_fields' = f
        /\ filled_fields' = f
        /\ UNCHANGED <<cfgVars, engineVars, dirVars, batchVars, segVars, pc,
                       calls, region>>

NextExtract ==
    \/ AppExtractInvoiceInfo
    \/ ServiceExtractInvoiceInfo
    \/ FixedExtractInvoiceInfo

SpecExtract == InitExtract /\ [][NextExtract]_vars

-----------------------------------------------------------------------------
(* Segmentation: detect_invoices_from_pdf of app.py and of OCRService.     *)
(* A PDF is [readable, pages]; a page is [width, height, contours], the    *)
(* contours in the order cv2.findContours returns them, each with the x    *)
(* and y of its bounding rectangle and its contour area.                   *)

\* app.py 201: cv2.contourArea(c) > 5000; config.py 38
MinContourArea == 5000

\* the kernel size with the product rounded to the nearest integer
KernelSizeRounded(width, height) ==
    LET side  == IF width >= height THEN width ELSE height
        ksize == (30 * side + 500) \div 1000
    IN  MaxOf({20, MinOf({ksize, 80})})

\* app.py 194-196: scale = max(width, height) / 1000; int(30 * scale);
\* max(20, min(ksize, 80)).  int truncates; the floating-point product
\* truncates to floor(30 * max / 1000) wherever the clamp leaves it visible
KernelSize(width, height) ==
    LET side  == IF width >= height THEN width ELSE height
        ksize == (30 * side) \div 1000
    IN  MaxOf({20, MinOf({ksize, 80})})

\* the boxes sorted by x and then y
SortBoxesByXY(boxes) ==
    LET n == Len(boxes)
        Before(a, b) ==
            \/ boxes[a].x < boxes[b].x
            \/ boxes[a].x = boxes[b].x /\ boxes[a].y < boxes[b].y
            \/ boxes[a].x = boxes[b].x /\ boxes[a].y = boxes[b].y /\ a < b
        Rank(a) == Cardinality({b \in 1..n : Before(b, a)}) + 1
    IN  [k \in 1..n |-> boxes[CHOOSE a \in 1..n : Rank(a) = k]]

\* app.py 202: sorted(boxes, key=lambda b: (b[1], b[0])); the sort is stable
SortBoxes(boxes) ==
    LET n == Len(boxes)
        Before(a, b) ==
            \/ boxes[a].y < boxes[b].y
            \/ boxes[a].y = boxes[b].y /\ boxes[a].x < boxes[b].x
            \/ boxes[a].y = boxes[b].y /\ boxes[a].x = boxes[b].x /\ a < b
        Rank(a) == Cardinality({b \in 1..n : Before(b, a)}) + 1
    IN  [k \in 1..n |-> boxes[CHOOSE a \in 1..n : Rank(a) = k]]

\* app.py 201-207: the region files of page i, named page_<i>.png_block<j>.png
PageRegions(page, i) ==
    LET Large(c) == c.area > MinContourArea
        boxes == SortBoxes(SelectSeq(page.contours, Large))
    IN  [j \in 1..Len(boxes) |->
            [page |-> i, block |-> j - 1, x |-> boxes[j].x, y |-> boxes[j].y]]

\* app.py 187-207: the loop over the pages from page i on
RECURSIVE DetectFrom(_, _)
DetectFrom(images, i) ==
    IF i > Len(images) THEN <<>>
    ELSE PageRegions(images[i], i) \o DetectFrom(images, i + 1)

\* app.py 181-208: detect_invoices_from_pdf(pdf_path); convert_from_path
\* raises on an unreadable PDF
DetectInvoicesFromPdf ==
    /\ detector = "none"
    /\ pipeline = "none"
    /\ detector' = "app"
    /\ raised' = ~pdf.readable
    /\ kernels' =
          IF pdf.readable
          THEN [i \in DOMAIN pdf.pages |->
                   KernelSize(pdf.pages[i].width, pdf.pages[i].height)]
          ELSE <<>>
    /\ region_files' = IF pdf.readable THEN DetectFrom(pdf.pages, 1) ELSE <<>>
    /\ UNCHANGED <<cfgVars, engineVars, dirVars, batchVars, pc, calls, pdf,
                   region, pipeline, record, paddle_calls, primary_fields,
                   filled_fields>>

\* ocr_service.py 93-150: OCRService._detect_invoices_from_pdf(pdf_path);
\* every exception leaves as FileProcessingError
ServiceDetectInvoicesFromPdf ==
    /\ detector = "none"
    /\ pipeline = "none"
    /\ detector' = "service"
    /\ raised' = ~pdf.readable
    /\ kernels' =
          IF pdf.readable
          THEN [i \in DOMAIN pdf.pages |->
                   KernelSize(pdf.pages[i].width, pdf.pages[i].height)]
          ELSE <<>>
    /\ region_files' = IF pdf.readable THEN DetectFrom(pdf.pages, 1) ELSE <<>>
    /\ UNCHANGED <<cfgVars, engineVars, dirVars, batchVars, pc, calls, pdf,
                   region, pipeline, record, paddle_calls, primary_fields,
                   filled_fields>>

\* bound: pages of a PDF whose contours are under study
MaxPages == 2

\* bound: contours cv2.findContours returns on such a page
MaxContours == 2

\* bound: the longest side, in pixels, of a page whose kernel is under study
MaxSide == 3000

\* contours: two on one row, one below, one at the area threshold
Contours ==
    { [x |-> 10, y |-> 10, area |-> 6000],
      [x |-> 20, y |-> 10, area |-> 5001],
      [x |-> 10, y |-> 20, area |-> 6000],
      [x |-> 20, y |-> 20, area |-> 5000] }

\* an A4 page at 300 dpi with up to MaxContours different contours
ContourPages ==
    [width : {2480}, height : {3508},
     contours : UNION {{s \in [1..n -> Contours] :
                           \A a \in 1..n : \A b \in 1..n :
                               a # b => s[a] # s[b]} : n \in 0..MaxContours}]

\* a page of any width up to MaxSide, flat or tall, with nothing on it
BlankPages ==
    [width : 1..MaxSide, height : {1, 1500}, contours : {<<>>}]

\* the PDFs given to the segmenters
Pdfs ==
    [readable : {TRUE},
     pages : UNION {[1..n -> ContourPages] : n \in 1..MaxPages}]
    \cup [readable : {TRUE}, pages : {<<p>> : p \in BlankPages}]
    \cup {[readable |-> FALSE, pages |-> <<>>]}

\* a segmenter is about to be given a PDF; no request is in progress
InitSegment ==
    /\ callers = {}
    /\ regionCap = 0
    /\ callCap = 0
    /\ pages = {}
    /\ installed = [e \in Engines |-> TRUE]
    /\ cpu_count = 0
    /\ lib = [e \in Engines |-> FALSE]
    /\ ocr_engines = [e \in Engines |-> NoEngine]
    /\ ctorCount = [e \in Engines |-> 0]
    /\ ctorFailed = [e \in Engines |-> FALSE]
    /\ BatchIdle
    /\ region = NoRegion
    /\ pipeline = "none"
    /\ record = Unset
    /\ raised = FALSE
    /\ paddle_calls = 0
    /\ primary_fields = NoFields
    /\ filled_fields = NoFields
    /\ pdf \in Pdfs
    /\ detector = "none"
    /\ kernels = <<>>
    /\ region_files = <<>>

NextSegment ==
    \/ DetectInvoicesFromPdf
    \/ ServiceDetectInvoicesFromPdf

SpecSegment == InitSegment /\ [][NextSegment]_vars

-----------------------------------------------------------------------------
(* services/ocr_service.py: the OCRService object of routes/ocr_routes.py  *)
(* over its lifetime, one process_pdf call after another.                  *)

\* ocr_service.py 152-251 on the engines the object holds: .ocr / .readtext
\* on None raises AttributeError inside the try of _extract_invoice_info,
\* .ocr on a missing PaddleOCR inside the try of _extract_with_paddle_ocr
ServiceRegionRow(img, img_name, eng) ==
    IF \/ eng["cnocr"] = NoEngine
       \/ img.fault # "cnocr" /\ eng["easyocr"] = NoEngine
    THEN ServiceErrorRow(img_name, <<"NoneType">>)
    ELSE OCRService_extract_invoice_info(
             IF eng["paddleocr"] = NoEngine /\ img.fault = "none"
             THEN [img EXCEPT !.fault = "paddleocr"] ELSE img,
             img_name)

\* ocr_service.py 60-67: process_pdf(pdf_path) up to init_ocr_engines(); a
\* missing file or another suffix raises before anything is done
ServiceProcessPdf(t) ==
    /\ pc[t] \in {"idle", "returned", "raised"}
    /\ calls < callCap
    /\ calls' = calls + 1
    /\ invoice_images' = [invoice_images EXCEPT ![t] = <<>>]
    /\ crops' = [crops EXCEPT ![t] = <<>>]
    /\ results' = [results EXCEPT ![t] = <<>>]
    /\ report' = [report EXCEPT ![t] = <<>>]
    /\ \E found \in BOOLEAN :
          /\ pc' = [pc EXCEPT ![t] = IF found THEN "svc_init" ELSE "raised"]
          /\ failure' = [failure EXCEPT ![t] = IF found THEN "none" ELSE "path"]
    /\ UNCHANGED <<cfgVars, extractVars, segVars, engineVars, dirVars,
                   max_workers, task, future, completed>>

\* ocr_service.py 48-58: init_ocr_engines(); the three constructors run in
\* one try block, the first that raises ends it with FileProcessingError
ServiceInitOcrEngines(t) ==
    /\ pc[t] = "svc_init"
    /\ IF ocr_engines["cnocr"] # NoEngine
       THEN /\ pc' = [pc EXCEPT ![t] = "svc_detect"]
            /\ UNCHANGED <<engineVars, failure>>
       ELSE \E failing \in Engines \cup {"none"} :
            LET Built(e) ==
                    \/ failing = "none"
                    \/ failing = "easyocr" /\ e = "cnocr"
                    \/ failing = "paddleocr" /\ e \in {"cnocr", "easyocr"}
            IN  /\ ocr_engines' = [e \in Engines |->
                       IF Built(e) THEN ctorCount[e] + 1 ELSE ocr_engines[e]]
                /\ ctorCount' = [e \in Engines |->
                       IF Built(e) THEN ctorCount[e] + 1 ELSE ctorCount[e]]
                /\ ctorFailed' = [e \in Engines |->
                       IF e = failing THEN TRUE
                       ELSE IF Built(e) THEN FALSE ELSE ctorFailed[e]]
                /\ pc' = [pc EXCEPT ![t] =
                             IF failing = "none" THEN "svc_detect" ELSE "raised"]
                /\ failure' = [failure EXCEPT ![t] =
                                  IF failing = "none" THEN "none" ELSE "init"]
                /\ UNCHANGED lib
    /\ UNCHANGED <<cfgVars, extractVars, segVars, dirVars, calls,
                   invoice_images, crops, max_workers, task, future, results,
                   completed, report>>

\* ocr_service.py 70, 93-150: _detect_invoices_from_pdf; on an unreadable
\* PDF the except of process_pdf cleans up and raises
ServiceDetect(t) ==
    /\ pc[t] = "svc_detect"
    /\ \E readable \in BOOLEAN :
          IF ~readable
          THEN /\ temp_dir' = FALSE
               /\ cropped_dir' = FALSE
               /\ cropped' = <<>>
               /\ pc' = [pc EXCEPT ![t] = "raised"]
               /\ failure' = [failure EXCEPT ![t] = "segmentation"]
               /\ UNCHANGED <<invoice_images, crops>>
          ELSE \E n \in 0..regionCap : \E imgs \in [1..n -> pages] :
               /\ temp_dir' = TRUE
               /\ cropped_dir' = TRUE
               /\ cropped' = WriteCrops(cropped, imgs)
               /\ invoice_images' = [invoice_images EXCEPT ![t] = BlockNames(n)]
               /\ crops' = [crops EXCEPT ![t] = imgs]
               /\ pc' = [pc EXCEPT ![t] = "svc_extract"]
               /\ UNCHANGED failure
    /\ UNCHANGED <<cfgVars, extractVars, segVars, engineVars, calls,
                   max_workers, task, future, results, completed, report>>

\* ocr_service.py 73-76: one turn of the loop over invoice_images
ServiceExtract(t) ==
    LET i == Len(results[t]) + 1
    IN  /\ pc[t] = "svc_extract"
        /\ i \in DOMAIN invoice_images[t]
        /\ results' = [results EXCEPT ![t] =
               Append(@, ServiceRegionRow(cropped[invoice_images[t][i]],
                                          invoice_images[t][i], ocr_engines))]
        /\ UNCHANGED <<cfgVars, extractVars, segVars, engineVars, dirVars,
                       calls, pc, invoice_images, crops, max_workers, task,
                       future, completed, failure, report>>

\* ocr_service.py 78-91: _generate_excel_report, _cleanup_temp_files and the
\* return; a report that cannot be written ends in the except, which
\* cleans up too
ServiceReport(t) ==
    /\ pc[t] = "svc_extract"
    /\ Len(results[t]) = Len(invoice_images[t])
    /\ temp_dir' = FALSE
    /\ cropped_dir' = FALSE
    /\ cropped' = <<>>
    /\ \E written \in BOOLEAN :
          /\ report' = [report EXCEPT ![t] = IF written THEN results[t] ELSE @]
          /\ pc' = [pc EXCEPT ![t] = IF written THEN "returned" ELSE "raised"]
          /\ failure' = [failure EXCEPT ![t] =
                            IF written THEN "none" ELSE "report"]
    /\ UNCHANGED <<cfgVars, extractVars, segVars, engineVars, calls,
                   invoice_images, crops, max_workers, task, future, results,
                   completed>>

\* routes/ocr_routes.py 23: ocr_service = OCRService(); ocr_service.py
\* 44-47: no engine yet; the libraries were imported with the module
InitService ==
    /\ callers = {1}
    /\ regionCap = MaxRegions
    /\ callCap = MaxCalls
    /\ pages = BatchImages
    /\ installed = [e \in Engines |-> TRUE]
    /\ cpu_count = 0
    /\ lib = [e \in Engines |-> TRUE]
    /\ ocr_engines = [e \in Engines |-> NoEngine]
    /\ ctorCount = [e \in Engines |-> 0]
    /\ ctorFailed = [e \in Engines |-> FALSE]
    /\ BatchIdle
    /\ region = NoRegion
    /\ pipeline = "none"
    /\ record = Unset
    /\ raised = FALSE
    /\ paddle_calls = 0
    /\ primary_fields = NoFields
    /\ filled_fields = NoFields
    /\ NoPdf

NextService ==
    \/ \E t \in callers : ServiceProcessPdf(t)
    \/ \E t \in callers : ServiceInitOcrEngines(t)
    \/ \E t \in callers : ServiceDetect(t)
    \/ \E t \in callers : ServiceExtract(t)
    \/ \E t \in callers : ServiceReport(t)

SpecService == InitService /\ [][NextService]_vars

-----------------------------------------------------------------------------
(* Properties of process_invoice_pdf and init_ocr_engines.                 *)

FiveFields == {"invoice_number", "date", "fuel_type", "quantity", "address"}

AllNull(row) == \A k \in FiveFields : row[k] = None

PostInit ==
    {"segment", "sized", "pool", "report", "purge", "returned", "raised"}

InInit == {"import", "cnocr", "easyocr", "paddleocr"}

\* C1: when process_invoice_pdf returns, the record list has one entry per
\* segmented region, and entry i is the record the task of region i produced,
\* carrying the file name of region i, whatever the order of completion.
C1_ResultsFollowSegmentation ==
    \A t \in callers :
        pc[t] = "returned" =>
            /\ Len(results[t]) = Len(invoice_images[t])
            /\ Len(results[t]) >= 1
            /\ \A i \in 1..Len(results[t]) :
                  /\ results[t][i] = future[t][i]
                  /\ results[t][i].page = invoice_images[t][i]

\* C1 witness: a batch of two regions returned after region 2 completed first
C1_Witness ==
    /\ pc[1] = "returned"
    /\ completed[1] = <<2, 1>>
    /\ results[1][1].page = 1 /\ results[1][2].page = 2

\* C2: when the pipeline of a region raises, its record has the five fields
\* null and a non-empty remark; every other region's record is the one
\* extract_invoice_info gives for its own crop; the list is complete.
C2_FailureIsolated ==
    \A t \in callers :
        pc[t] = "returned" =>
            /\ Len(results[t]) = Len(crops[t])
            /\ \A i \in 1..Len(results[t]) :
                  IF ExtractRaises(crops[t][i], ocr_engines)
                  THEN /\ AllNull(results[t][i])
                       /\ results[t][i].remarks \notin {<<>>, None}
                  ELSE results[t][i] =
                          extract_invoice_info(crops[t][i],
                                               invoice_images[t][i], ocr_engines)

\* C2 witness: region 1 raised, region 2 of the same batch kept its fields
C2_Witness ==
    /\ pc[1] = "returned"
    /\ crops[1] = <<ImgBroken, ImgClear>>
    /\ \A e \in Engines : ocr_engines[e] # NoEngine
    /\ AllNull(results[1][1]) /\ results[1][1].remarks # <<>>
    /\ results[1][2].invoice_number = SampleLines.invoice
    /\ results[1][2].date = SampleLines.date
    /\ results[1][2].remarks = <<>>

\* C3: whenever process_invoice_pdf has exited, normally or by raising, both
\* temporary directories are gone.
C3_PurgedOnEveryExit ==
    \A t \in callers :
        pc[t] \in {"returned", "raised"} => ~temp_dir /\ ~cropped_dir

\* C4: process_invoice_pdf raises only when the PDF could not be segmented.
C4_OnlySegmentationRaises ==
    \A t \in callers : pc[t] = "raised" => failure[t] = "segmentation"

\* C5: while two threads are inside init_ocr_engines at the same time, each
\* having called process_invoice_pdf once, no engine has been built twice.
C5_BuiltOnceUnderRace ==
    (calls = Cardinality(callers) /\ \A t \in callers : pc[t] \in InInit \cup {"segment"})
        => \A e \in Engines : ctorCount[e] <= 1

\* C6: over a sequence of process_invoice_pdf calls every engine is built at
\* most once.
C6_BuiltAtMostOnce == \A e \in Engines : ctorCount[e] <= 1

\* the crop as the pipeline should see it when an engine is missing: the
\* missing engine contributes no line
Degraded(img, eng) ==
    [img EXCEPT !.cn = IF eng["cnocr"] = NoEngine THEN <<>> ELSE @,
                !.zh = IF eng["easyocr"] = NoEngine THEN <<>> ELSE @]

AnyEngine == [e \in Engines |-> 1]

\* C7: with CnOCR or EasyOCR missing, a region on which no inference call
\* raises gets no error remark, and its record holds what the remaining
\* engines' lines give.
C7_MissingEngineDegrades ==
    \A t \in callers :
        (pc[t] = "returned"
         /\ (ocr_engines["cnocr"] = NoEngine \/ ocr_engines["easyocr"] = NoEngine))
        => \A i \in 1..Len(results[t]) :
              crops[t][i].fault = "none" =>
                 results[t][i] =
                    Row(invoice_images[t][i],
                        ExtractFields(Degraded(crops[t][i], ocr_engines),
                                      [AnyEngine EXCEPT !["paddleocr"] =
                                          ocr_engines["paddleocr"]]),
                        <<>>)

\* C8: once init_ocr_engines has run its body, an engine is missing only if
\* its own import or its own constructor failed, and the call did not raise.
C8_EnginesIndependent ==
    \A t \in callers :
        pc[t] \in PostInit =>
            /\ \A e \in Engines :
                  ocr_engines[e] = NoEngine => (~installed[e] \/ ctorFailed[e])
            /\ failure[t] \in {"none", "segmentation", "pool", "report"}

\* C8 witness: the CnOCR constructor raised, or the EasyOCR import failed,
\* and the other two engines were built by the same call
C8_Witness ==
    /\ pc[1] = "segment" /\ calls = 1
    /\ \/ /\ ctorFailed["cnocr"]
          /\ ocr_engines["easyocr"] # NoEngine
       \/ /\ ~installed["easyocr"]
          /\ ocr_engines["cnocr"] # NoEngine
    /\ ocr_engines["paddleocr"] # NoEngine

-----------------------------------------------------------------------------
(* Properties of the extraction pipelines.                                 *)

\* v fully matches [A-Z]{2}-\d{7,8}
CanonicalInvoiceNumber(v) ==
    /\ Len(v) \in {10, 11}
    /\ v[1] \in UpperLetters /\ v[2] \in UpperLetters /\ v[3] = "-"
    /\ \A i \in 4..Len(v) : v[i] \in Digits

\* v fully matches \d{4}[-/]\d{2}[-/]\d{2}
CanonicalDate(v) ==
    /\ Len(v) = 10
    /\ \A i \in {1, 2, 3, 4, 6, 7, 9, 10} : v[i] \in Digits
    /\ v[5] \in {"-", "/"} /\ v[8] \in {"-", "/"}

\* v is one of the values of fuel_mapping
CanonicalFuelType(v) == v \in fuel_mapping_values

\* v has length >= 6, contains <hao> and contains a district token
CanonicalAddress(v) ==
    /\ Len(v) >= 6
    /\ \E i \in 1..Len(v) : v[i] = "hao"
    /\ \E d \in district_keywords : \E i \in 1..(Len(v) - 1) :
          <<v[i], v[i + 1]>> = d

\* each of the four grammar-checked fields of row is null or canonical
FieldsCanonical(row) ==
    /\ row.invoice_number # None => CanonicalInvoiceNumber(row.invoice_number)
    /\ row.date # None => CanonicalDate(row.date)
    /\ row.fuel_type # None => CanonicalFuelType(row.fuel_type)
    /\ row.address # None => CanonicalAddress(row.address)

\* C9: every record app.extract_invoice_info returns, for every set of
\* recognised lines, has a non-null invoice number fully matching
\* [A-Z]{2}-\d{7,8}, a non-null date fully matching \d{4}[-/]\d{2}[-/]\d{2},
\* a non-null fuel type among the values of fuel_mapping, and a non-null
\* address of length >= 6 with <hao> and a district token.
C9_RecordSatisfiesValidationLaws ==
    (pipeline = "app" /\ ~raised) => FieldsCanonical(record)

\* a returned record whose detected fuel keyword (95<hao>) has no canonical
\* label and was dropped, next to three fields that passed validation
C9_Witness ==
    /\ pipeline = "app" /\ ~raised
    /\ detect_fuel_type(JoinLines(region.cn \o region.zh)) = <<"9", "5", "hao">>
    /\ record.fuel_type = None
    /\ record.invoice_number # None
    /\ record.date # None
    /\ record.address # None

\* C10: every record the service-layer pipelines return
\* (OCRService._extract_invoice_info and OCRServiceFixed._extract_invoice_info)
\* has each field null or satisfying its grammar: a value failing the
\* invoice-number, date, fuel-type or address grammar is replaced by null.
C10_ServiceRecordsCanonical ==
    pipeline \in {"service", "fixed"} => FieldsCanonical(record)

-----------------------------------------------------------------------------
(* The PaddleOCR pass of one region (SpecExtract).                         *)

\* the fields whose absence is meant to trigger the PaddleOCR pass
TriggerFields == {"invoice_number", "date", "quantity", "fuel_type"}

\* the app pipeline read the region with CnOCR and EasyOCR
AppRead == pipeline = "app" /\ ~PrimaryRaises(region, ocr_engines)

\* C11: in app.extract_invoice_info PaddleOCR is invoked on a region exactly
\* when one of invoice_number, date, quantity, fuel_type is still null after
\* the CnOCR and EasyOCR extraction and the engine is available; a null
\* address alone never triggers it, and it is invoked at most once.
C11_FallbackTriggeredByFourFields ==
    AppRead =>
        /\ paddle_calls <= 1
        /\ paddle_calls = 1 <=>
               /\ \E k \in TriggerFields : primary_fields[k] = None
               /\ ocr_engines["paddleocr"] # NoEngine

\* C12: the PaddleOCR pass only fills gaps: a field among invoice_number,
\* date, quantity, fuel_type that was non-null before the pass has the same
\* value after it, and the address is the same before and after the pass.
C12_FallbackOnlyFillsGaps ==
    pipeline \in {"app", "service"} =>
        /\ \A k \in TriggerFields :
               primary_fields[k] # None => filled_fields[k] = primary_fields[k]
        /\ filled_fields.address = primary_fields.address

\* the app pipeline ran the pass on a region with a date and an address and
\* the pass found the invoice number CnOCR had missed
C12_Witness ==
    /\ AppRead
    /\ paddle_calls = 1
    /\ ~raised
    /\ primary_fields.date # None
    /\ primary_fields.address # None
    /\ primary_fields.invoice_number = None
    /\ filled_fields.invoice_number # None

\* one of the four triggering fields is null before the PaddleOCR pass
TriggerFieldNull == \E k \in TriggerFields : primary_fields[k] = None

\* the four triggering fields are as they were before the pass and the
\* pipeline returned a record with an empty remark
PassLeftNoTrace ==
    /\ ~raised
    /\ \A k \in TriggerFields : filled_fields[k] = primary_fields[k]
    /\ record # Unset
    /\ record.remarks = <<>>

\* C13: when a triggering field is null but PaddleOCR is unavailable (never
\* initialised, or its call fails inside OCRService) or returns no lines, the
\* pipeline raises no error, the four fields keep the values they had and
\* the record is produced with an empty remark.
C13_FallbackWithoutTertiaryIsSilent ==
    /\ ( /\ AppRead
         /\ TriggerFieldNull
         /\ \/ ocr_engines["paddleocr"] = NoEngine
            \/ region.pd = <<>> /\ region.fault # "paddleocr" )
       => PassLeftNoTrace
    /\ ( /\ pipeline = "service"
         /\ region.fault \notin {"cnocr", "easyocr"}
         /\ TriggerFieldNull
         /\ (region.fault = "paddleocr" \/ region.pd = <<>>) )
       => PassLeftNoTrace

\* the app pipeline missed the date on a region PaddleOCR could have read,
\* the engine was never initialised, and the record has a null date
C13_Witness ==
    /\ AppRead
    /\ ocr_engines["paddleocr"] = NoEngine
    /\ region.pd # <<>>
    /\ primary_fields.date = None
    /\ primary_fields.invoice_number # None
    /\ record # Unset
    /\ record.date = None
    /\ record.invoice_number # None

-----------------------------------------------------------------------------
(* The size of the worker pool (SpecPool).                                 *)

\* the greatest number that is at most 4, at most the number of regions and
\* at most the number of processors when the machine reports one
ClaimedPoolSize(t) ==
    LET fits(k) ==
            /\ k <= 4
            /\ k <= Len(invoice_images[t])
            /\ cpu_count # 0 => k <= cpu_count
    IN  CHOOSE k \in 0..4 : fits(k) /\ \A j \in 0..4 : fits(j) => j <= k

\* C14: process_invoice_pdf runs the region pipelines on a pool of exactly
\* min(4, region_count, available_hardware_parallelism) workers, and the
\* number of region pipelines executing at the same time never exceeds that
\* value, nor 4.
C14_PoolSizeBoundsConcurrency ==
    \A t \in callers :
        /\ pc[t] = "pool" => max_workers[t] = ClaimedPoolSize(t)
        /\ Cardinality(Running(t)) <= ClaimedPoolSize(t)
        /\ Cardinality(Running(t)) <= 4

\* four of five regions are in their pipelines on a machine of 8 processors
C14_Witness ==
    \E t \in callers :
        /\ pc[t] = "pool"
        /\ cpu_count = 8
        /\ Len(invoice_images[t]) = 5
        /\ Cardinality(Running(t)) = 4
        /\ task[t][5] = "queued"

-----------------------------------------------------------------------------
(* What app.extract_invoice_info finds on a region (SpecExtract).          *)

\* none of the three engines read a line on the region, and none failed
BlankRegion ==
    /\ region.cn = <<>>
    /\ region.zh = <<>>
    /\ region.pd = <<>>
    /\ region.fault = "none"

\* C15: if all three engines return no lines for a region,
\* app.extract_invoice_info raises nothing and returns a record whose five
\* fields are null and whose remark is the empty string.
C15_BlankRegionGivesEmptyRecord ==
    (AppRead /\ BlankRegion) =>
        /\ ~raised
        /\ record # Unset
        /\ AllNull(record)
        /\ record.remarks = <<>>

\* the app pipeline consulted all three engines on a blank region
C15_Witness ==
    /\ AppRead
    /\ BlankRegion
    /\ paddle_calls = 1
    /\ record.remarks = <<>>

\* the lines the three engines read on the region, CnOCR's first
RegionLines == region.cn \o region.zh \o region.pd

\* CnOCR read line i as the misread invoice number and no other line of the
\* region carries an invoice number
OnlyMisreadInvoice(i) ==
    /\ i \in DOMAIN region.cn
    /\ region.cn[i] = SampleLines.misread
    /\ \A j \in DOMAIN RegionLines :
           j # i => extract_invoice_number(RegionLines[j]) = None

\* C16: OCR-error correction precedes invoice-number matching: when CnOCR
\* reads the line |(F-26523895 and no other line carries an invoice number,
\* the record app.extract_invoice_info returns has invoice_number
\* KF-26523895.
C16_MisreadInvoiceNumberCorrected ==
    (AppRead /\ ~raised /\ \E i \in DOMAIN region.cn : OnlyMisreadInvoice(i)) =>
        record.invoice_number =
            <<"K", "F", "-", "2", "6", "5", "2", "3", "8", "9", "5">>

\* the first CnOCR line carrying a date is line i, the Republic-calendar
\* date of year 112, month 05, day 10
FirstDateIsRoc(i) ==
    /\ i \in DOMAIN region.cn
    /\ region.cn[i] = SampleLines.roc_date
    /\ \A j \in 1..(i - 1) : extract_and_convert_date(region.cn[j]) = None

\* C17: a Republic-calendar date on a CnOCR line is surfaced as the Western
\* date (y+1911)-mm-dd: the line of year 112, month 05, day 10 yields the
\* record date 2023-05-10 from app.extract_invoice_info.
C17_RocDateSurfacedAsWestern ==
    (AppRead /\ ~raised /\ \E i \in DOMAIN region.cn : FirstDateIsRoc(i)) =>
        record.date = <<"2", "0", "2", "3", "-", "0", "5", "-", "1", "0">>

\* the text detect_fuel_type searches in the app pipeline, fuzzy-corrected
FuelText ==
    ReplaceAll(JoinLines(region.cn \o region.zh), fuel_fuzzy_mapping)

\* the fuel keywords present in that text
PresentKeywords ==
    {fuel_keywords[i] : i \in {j \in DOMAIN fuel_keywords :
                                   Contains(FuelText, fuel_keywords[j])}}

StatedQuantity(lines) ==
    LET OnLine(l) ==
            IF quantity_search(l) # None THEN quantity_search(l)
            ELSE quantity_fallback_search(l)
        Near(i) ==
            IF OnLine(lines[i]) # None THEN OnLine(lines[i])
            ELSE IF i < Len(lines) THEN OnLine(lines[i + 1])
            ELSE None
        hits == {i \in DOMAIN lines :
                    HasFuelKeyword(lines[i]) /\ Near(i) # None}
    IN  IF hits # {} THEN Near(MinOf(hits))
        ELSE FirstFound([i \in DOMAIN lines |->
                 quantity_fallback_search(lines[i])])

\* C19: the quantity app.extract_invoice_info has before the PaddleOCR pass
\* follows the stated order: keyword line (number with unit, else decimal),
\* else the following line, first success wins; if no keyword line yields a
\* value, the first decimal number anywhere in the lines, no unit required.
C19_QuantityFollowsStatedOrder ==
    AppRead =>
        primary_fields.quantity = StatedQuantity(region.cn \o region.zh)

\* [A-Z]{2}-\d{7,8} matches at position i of s with n digits
StatedInvoiceAt(s, i, n) ==
    /\ i + 2 + n <= Len(s)
    /\ IsUpper(s[i]) /\ IsUpper(s[i + 1]) /\ s[i + 2] = "-"
    /\ \A k \in 3..(2 + n) : IsDigit(s[i + k])

\* the first match of [A-Z]{2}-\d{7,8} in s, eight digits where there are
\* eight
StatedInvoiceSearch(s) ==
    LET P == {i \in 1..Len(s) : StatedInvoiceAt(s, i, 7)}
        i == MinOf(P)
    IN  IF P = {} THEN None
        ELSE IF StatedInvoiceAt(s, i, 8) THEN SubSeq(s, i, i + 10)
        ELSE SubSeq(s, i, i + 9)

\* C20: before the PaddleOCR pass the invoice number of a region is the first
\* substring matching [A-Z]{2}-\d{7,8} in CnOCR's lines taken in order, the
\* 7-digit form as well as the 8-digit form; EasyOCR's lines are never
\* consulted for it.
C20_InvoiceNumberFromPrimaryLines ==
    AppRead =>
        primary_fields.invoice_number =
            FirstFound([i \in DOMAIN region.cn |->
                StatedInvoiceSearch(region.cn[i])])

\* the address by the stated rule: the first EasyOCR line matching the strict
\* grammar, else the first EasyOCR line with a district token, <hao> and a
\* digit, else none
StatedAddress(zh_lines) ==
    LET strict == {i \in DOMAIN zh_lines : address_pattern_matches(zh_lines[i])}
        loose  == {i \in DOMAIN zh_lines :
                      /\ HasDistrict(zh_lines[i])
                      /\ Contains(zh_lines[i], <<"hao">>)
                      /\ \E c \in Digits : Contains(zh_lines[i], <<c>>)}
    IN  IF strict # {} THEN zh_lines[MinOf(strict)]
        ELSE IF loose # {} THEN zh_lines[MinOf(loose)]
        ELSE None

\* a pipeline named by the claims on extraction read the region
PipelineRead ==
    \/ AppRead
    \/ pipeline = "service" /\ region.fault \notin {"cnocr", "easyocr"}

\* C21: the address a pipeline extracts is a whole line of EasyOCR, never a
\* line of CnOCR or PaddleOCR: the first line matching the strict address
\* grammar, and only if none matches, the first line with a district token,
\* <hao> and a digit; a strict match on a later line wins over a loose match
\* on an earlier one.
C21_AddressIsSecondaryLine ==
    PipelineRead => primary_fields.address = StatedAddress(region.zh)

\* C22: whenever detect_fuel_type returns a non-null value it is one of the
\* canonical labels (the values of fuel_mapping), so validation never nulls
\* a fuel type the detector produced.
C22_DetectedFuelTypeIsCanonical ==
    (AppRead /\ ~raised) =>
        /\ filled_fields.fuel_type # None =>
               filled_fields.fuel_type \in fuel_mapping_values
        /\ record.fuel_type = filled_fields.fuel_type

\* the address check of the validation step: at least 6 characters, <hao>
\* and a district token
PassesAddressCheck(a) ==
    /\ Len(a) >= 6
    /\ \E i \in DOMAIN a : a[i] = "hao"
    /\ \E d \in district_keywords : Contains(a, d)

\* C23: validation works on the fields left by the PaddleOCR pass and
\* corrects the address before checking it: an address that passes the
\* check once the substitution table is applied is surfaced in corrected
\* form, so the line ending in the glyph <hao_s> is returned with <hao>.
C23_AddressCorrectedBeforeCheck ==
    (PipelineRead /\ ~raised /\ filled_fields.address # None) =>
        LET corrected == ReplaceAll(filled_fields.address, address_replacements)
        IN  /\ PassesAddressCheck(corrected) => record.address = corrected
            /\ filled_fields.address = SampleLines.address_hao_s =>
                   record.address = SampleLines.address

\* the app pipeline took the line ending in <hao_s> as the address and
\* returned it with <hao>
C23_Witness ==
    /\ AppRead
    /\ ~raised
    /\ filled_fields.address = SampleLines.address_hao_s
    /\ record.address = SampleLines.address
    /\ record.address # filled_fields.address

-----------------------------------------------------------------------------
(* The end of a batch (Spec).                                              *)

\* call t is building its report, purging, or has returned
PastPool(t) == pc[t] \in {"report", "purge", "returned"}

\* C24: process_invoice_pdf builds the report and purges the temporary
\* directories only after every submitted region task has completed and its
\* result is in its slot: from the moment the report is built no slot is
\* empty, every slot was written exactly once and no task of the call is
\* running or waiting, in particular when the call deletes the region files.
C24_ReportAfterAllTasks ==
    \A t \in callers :
        PastPool(t) =>
            /\ Len(results[t]) = Len(invoice_images[t])
            /\ \A i \in DOMAIN results[t] : results[t][i] # Unset
            /\ Len(completed[t]) = Len(results[t])
            /\ \A i \in DOMAIN results[t] :
                   Cardinality({k \in DOMAIN completed[t] :
                                   completed[t][k] = i}) = 1
            /\ \A i \in DOMAIN task[t] : task[t][i] = "collected"

\* a call is about to purge after its second region finished first
C24_Witness ==
    \E t \in callers :
        /\ pc[t] = "purge"
        /\ completed[t] = <<2, 1>>
        /\ cropped # <<>>

\* C25: under fair scheduling, with every region pipeline completing, a call
\* of process_invoice_pdf that has segmented its PDF eventually returns with
\* the report (writing the report file aside); nothing but a pipeline that
\* never completes keeps it from returning.
C25_BatchEventuallyReturns ==
    \A t \in Callers : \A c \in 1..MaxCalls :
        (calls = c /\ pc[t] = "sized")
            ~> (calls = c /\ (pc[t] = "returned" \/ failure[t] = "report"))

\* call t segmented a readable PDF and found no region on its pages
ZeroRegions(t) ==
    /\ pc[t] \in {"sized", "pool", "report", "purge", "returned", "raised"}
    /\ failure[t] # "segmentation"
    /\ invoice_images[t] = <<>>

\* C26: a readable PDF whose pages yield no region is not a failure: the
\* call raises nothing from sizing the pool or from averaging, and returns
\* an empty record list and a report of zero rows.
C26_ZeroRegionsIsNotAFailure ==
    \A t \in callers :
        ZeroRegions(t) =>
            /\ failure[t] \in {"none", "report"}
            /\ pc[t] = "returned" => results[t] = <<>> /\ report[t] = <<>>

-----------------------------------------------------------------------------
(* Segmentation (SpecSegment)                                              *)

\* the contours of page i of the PDF that are above the minimum area
LargeContours(i) ==
    {k \in DOMAIN pdf.pages[i].contours :
        pdf.pages[i].contours[k].area > MinContourArea}

\* region file k comes no later than region file l in the stated order:
\* an earlier page, or the same page and a smaller y, or the same y and
\* no larger x
StatedOrder(k, l) ==
    \/ region_files[k].page < region_files[l].page
    \/ /\ region_files[k].page = region_files[l].page
       /\ \/ region_files[k].y < region_files[l].y
          \/ /\ region_files[k].y = region_files[l].y
             /\ region_files[k].x <= region_files[l].x

\* C27: the region list of a segmenter is page-major and, within a page,
\* ascending in the y and then the x of the bounding boxes; the regions of
\* a page are exactly its contours above the minimum area, one region each
C27_RegionsPageMajorThenYX ==
    (detector # "none" /\ ~raised) =>
        /\ \A k \in DOMAIN region_files : \A l \in DOMAIN region_files :
               k < l => StatedOrder(k, l)
        /\ \A k \in DOMAIN region_files :
               /\ region_files[k].page \in DOMAIN pdf.pages
               /\ \E c \in LargeContours(region_files[k].page) :
                      LET box == pdf.pages[region_files[k].page].contours[c]
                      IN  box.x = region_files[k].x /\ box.y = region_files[k].y
        /\ \A i \in DOMAIN pdf.pages :
               Cardinality({k \in DOMAIN region_files :
                               region_files[k].page = i})
                   = Cardinality(LargeContours(i))

\* C27 witness: two pages were segmented; the first gave two regions from
\* contours found in the other order, the second gave a region too, and a
\* contour at the minimum area was left out
C27_Witness ==
    /\ detector # "none"
    /\ ~raised
    /\ Len(pdf.pages) = 2
    /\ Len(region_files) = 3
    /\ region_files[1].page = 1 /\ region_files[2].page = 1
    /\ region_files[3].page = 2
    /\ pdf.pages[1].contours[1].y > pdf.pages[1].contours[2].y
    /\ Len(pdf.pages[2].contours) = 2

\* the longer side of page i of the PDF
LongSide(i) ==
    IF pdf.pages[i].width >= pdf.pages[i].height
    THEN pdf.pages[i].width ELSE pdf.pages[i].height

\* r brought into the interval from 20 to 80
Clamp(r) == IF r < 20 THEN 20 ELSE IF r > 80 THEN 80 ELSE r

\* C28 as stated: the kernel size of every page is 30 * max(width, height)
\* / 1000 rounded to the nearest integer and clamped to [20, 80]
C28_KernelSizeIsRoundedAndClamped ==
    (detector # "none" /\ ~raised) =>
        \A i \in DOMAIN kernels :
            \E r \in 0..(30 * LongSide(i)) :
                /\ 1000 * r - 30 * LongSide(i) <= 500
                /\ 30 * LongSide(i) - 1000 * r <= 500
                /\ kernels[i] = Clamp(r)

\* C28 amended: the kernel size of every page is 30 * max(width, height)
\* / 1000 truncated to an integer and clamped to [20, 80], so it always
\* lies in [20, 80]
C28_KernelSizeIsTruncatedAndClamped ==
    (detector # "none" /\ ~raised) =>
        /\ Len(kernels) = Len(pdf.pages)
        /\ \A i \in DOMAIN kernels :
               /\ kernels[i] \in 20..80
               /\ \E q \in 0..(30 * LongSide(i)) :
                      /\ 1000 * q <= 30 * LongSide(i)
                      /\ 30 * LongSide(i) < 1000 * (q + 1)
                      /\ kernels[i] = Clamp(q)

\* C28 witness: a page 1690 pixels wide, where 30 * 1690 / 1000 = 50.7,
\* was given the kernel size 50
C28_Witness ==
    /\ detector # "none"
    /\ ~raised
    /\ Len(kernels) = 1
    /\ LongSide(1) = 1690
    /\ kernels[1] = 50

-----------------------------------------------------------------------------
(* Two requests at once (SpecConc)                                         *)

\* the regions of call t that no task of t has read yet: all of them until
\* the pool exists, then those of the tasks still queued or running
Unread(t) ==
    IF pc[t] = "sized" THEN DOMAIN invoice_images[t]
    ELSE IF pc[t] = "pool"
         THEN {i \in DOMAIN task[t] : task[t][i] \in {"queued", "running"}}
         ELSE {}

\* C29: two concurrent process_invoice_pdf calls do not interfere through
\* the temporary directories: a region file that a task of a call has not
\* read yet is still there (no purge of the other call deleted it) and still
\* holds the crop that the call's own segmentation wrote (no segmentation of
\* the other call overwrote it)
C29_CallsDoNotShareRegionFiles ==
    \A t \in callers : \A i \in Unread(t) :
        /\ invoice_images[t][i] \in DOMAIN cropped
        /\ cropped[invoice_images[t][i]] = crops[t][i]

-----------------------------------------------------------------------------
(* The engines of the OCRService object (SpecService)                      *)

\* C30: whenever init_ocr_engines of OCRService has returned normally, all
\* three engines are there, whatever calls came before: process_pdf never
\* goes on to segmentation and extraction with an engine missing
C30_ServiceEnginesAllBuilt ==
    \A t \in callers :
        pc[t] \in {"svc_detect", "svc_extract"} =>
            \A e \in Engines : ocr_engines[e] # NoEngine

====
